---- MODULE Spec2Model ----
(***************************************************************************)
(* Model of the evaluation pipeline of gavin-ai (api/analyze):             *)
(* AnalyzeOrchestrator (session slots, background pipeline tasks, status   *)
(* and result snapshots), TesterAI.fire_questions_sequentially and the     *)
(* JudgeAI batch evaluation / aggregate metrics the pipeline calls.        *)
(*                                                                         *)
(* The program runs on one asyncio event loop.  A coroutine runs without   *)
(* interruption from one await to the next.  The variable `running` holds  *)
(* the coroutine that is in the middle of such a synchronous segment, so   *)
(* that the assignments inside a segment are separate states of the model  *)
(* but no other coroutine can be scheduled between them.                   *)
(***************************************************************************)
EXTENDS Integers, Sequences, FiniteSets, TLC

\* Bounds of the model.
MaxStarts == 2      \* coroutines launched (start calls and short-content requests)
MaxPairs == 2       \* QA pairs one extraction call returns
MaxMessages == 2    \* messages of a multi-turn request
MaxResults == 2     \* test results handed to one batch_evaluate call

VARIABLES
    session_id,                  \* AnalyzeOrchestrator.session_id
    current_session,             \* AnalyzeOrchestrator.current_session (0 is None)
    current_multi_turn_session,  \* AnalyzeOrchestrator.current_multi_turn_session (0 is None)
    sessions,                    \* the session dicts, by session id
    tasks,                       \* the coroutines, in creation order
    running,                     \* coroutine holding the event loop, 0 when the loop is free
    use_mt_bench,                \* JudgeAI.use_mt_bench
    polled,                      \* response of the last status/results call
    single,                      \* TRUE when the run starts exactly one session
    judge,                       \* a JudgeAI called on its own: its inputs and what it returned
    call                         \* one function called on its own: its arguments and its return

vars == <<session_id, current_session, current_multi_turn_session, sessions,
          tasks, running, use_mt_bench, polled, single, judge, call>>

SeqsUpTo(S, n) == UNION {[1..k -> S] : k \in 0..n}

RECURSIVE SelectSeq2(_, _)
SelectSeq2(s, keep) ==
    IF s = <<>> THEN <<>>
    ELSE IF Head(s) \in keep THEN <<Head(s)>> \o SelectSeq2(Tail(s), keep)
         ELSE SelectSeq2(Tail(s), keep)

(***************************************************************************)
(* Values.                                                                 *)
(***************************************************************************)

\* What one element of the JSON array returned by the extraction LLM can be:
\* a dict with a non-empty string question, a dict with an empty question,
\* a dict whose question is a non-string value (a number), or not a dict.
PairKinds == {"text", "empty", "nonstr", "nondict"}

\* Outcomes of one bot call made by _handle_question_callback:
\* a string (or {"message": ...}) reply, a reply of an unexpected format,
\* an exception with a message, an exception whose str() is empty.
BotOutcomes == {"ok", "none", "err_msg", "err_empty"}

NoMetrics ==
    [keys |-> {}, evaluation_method |-> "none", total_evaluations |-> 0,
     total_questions |-> 0, successful_responses |-> 0, total_responses |-> 0]

NoProgress ==
    [current_step |-> "none", questions_total |-> 0, questions_completed |-> 0,
     evaluations_completed |-> 0, total_messages |-> 0, processed_messages |-> 0]

\* A session dict that does not exist (never created, or unreferenced).
NoSession ==
    [kind |-> "none", status |-> "none", error |-> "absent",
     end_time |-> FALSE, duration |-> FALSE,
     qa_pairs |-> <<>>, questions |-> <<>>, test_results |-> <<>>,
     evaluated_results |-> <<>>, aggregate_metrics |-> NoMetrics,
     progress |-> NoProgress, messages |-> <<>>, responses |-> <<>>]

\* A session dict whose progress is already under way, which no start call
\* stores; it stands in for NewSession where the fresh slot is tested.
NewSessionWithProgress(kind) ==
    [NoSession EXCEPT
        !.kind = kind,
        !.status = IF kind = "stress" THEN "parsing_transcript" ELSE "parsing_content",
        !.progress = [NoProgress EXCEPT
            !.current_step = IF kind = "stress" THEN "parsing_transcript"
                             ELSE "parsing_content",
            !.questions_completed = 1]]

\* The dict start_stress_test / start_content_analysis stores in the slot.
NewSession(kind) ==
    [NoSession EXCEPT
        !.kind = kind,
        !.status = IF kind = "stress" THEN "parsing_transcript" ELSE "parsing_content",
        !.progress = [NoProgress EXCEPT
            !.current_step = IF kind = "stress" THEN "parsing_transcript"
                             ELSE "parsing_content"]]

\* The dict start_multi_turn_test stores in the multi-turn slot.
NewMultiTurnSession(messages) ==
    [NoSession EXCEPT
        !.kind = "multi",
        !.status = "processing",
        !.messages = messages,
        !.progress = [NoProgress EXCEPT
            !.current_step = "processing",
            !.total_messages = Len(messages)]]

\* A coroutine: a background pipeline ("stress", "content", "multi"), the
\* analyze_content request handler on its short-content path ("short"), or
\* a caller of fire_questions_sequentially with a callback of its own
\* ("call").  sess is the session dict the local variable `session` holds.
NoTask ==
    [kind |-> "none", pc |-> "done", sess |-> 0,
     qa_pairs |-> <<>>, questions |-> <<>>, results |-> <<>>,
     evaluated |-> <<>>, i |-> 0, invoked |-> <<>>]

NewTask(kind) == [NoTask EXCEPT !.kind = kind, !.pc = "init"]

Finished(t) == [NoTask EXCEPT !.kind = t.kind]

NoPoll == [op |-> "none", outcome |-> "none", status |-> "none", error |-> "absent"]

\* No function is called on its own.
NoCall == [phase |-> "none"]

(***************************************************************************)
(* Unreferenced session dicts are dropped: a dict stays only while a slot  *)
(* or the `session` local of a live coroutine refers to it.                *)
(***************************************************************************)
Collect(ss, ts, cur, curmt) ==
    [id \in DOMAIN ss |->
        IF \/ id = cur
           \/ id = curmt
           \/ \E k \in 1..Len(ts) : ts[k].pc # "done" /\ ts[k].sess = id
        THEN ss[id] ELSE NoSession]

(***************************************************************************)
(* TesterAI and the orchestrator's question callback.                      *)
(***************************************************************************)

\* TesterAI.extract_questions_from_qa_pairs: the questions of the pairs
\* whose question is truthy, in order.  pair.get raises on a non-dict item.
ExtractRaises(qa_pairs) == \E i \in 1..Len(qa_pairs) : qa_pairs[i] = "nondict"

extract_questions_from_qa_pairs(qa_pairs) == SelectSeq2(qa_pairs, {"text", "nonstr"})

\* The dict _handle_question_callback returns for question question_index.
\* error: "absent" (no key), "empty" (str(e) == ""), "msg".
CallbackResult(question_index, outcome) ==
    [question_index |-> question_index,
     status |-> IF outcome \in {"ok", "none"} THEN "success" ELSE "error",
     error |-> CASE outcome \in {"ok", "none"} -> "absent"
                 [] outcome = "err_empty" -> "empty"
                 [] OTHER -> "msg",
     bot_response |-> IF outcome = "ok" THEN "text" ELSE "None"]

\* The dict fire_questions_sequentially appends when the callback raises.
ExceptResult(i) ==
    [question_index |-> i,
     status |-> "absent",
     error |-> "msg",
     bot_response |-> "None"]

\* result.get("error") is truthy
HasError(result) == result.error = "msg"

(***************************************************************************)
(* JudgeAI.                                                                *)
(***************************************************************************)

\* JudgeAI._default_evaluation
DefaultEvaluation(result) ==
    [res |-> result, evaluation_method |-> "legacy", eval_error |-> TRUE, odd |-> FALSE]

\* Indices of the test results _batch_evaluate_with_mt_bench hands to the
\* rubric evaluator.
ValidIndices(test_results, qa_pairs) ==
    {i \in 1..Len(test_results) : ~HasError(test_results[i]) /\ i <= Len(qa_pairs)}

\* MTBenchEvaluator.evaluate_batch_responses slices every response before
\* its try block: a None response raises TypeError out of the rubric batch.
RubricBatchRaises(test_results, qa_pairs) ==
    \E i \in ValidIndices(test_results, qa_pairs) : test_results[i].bot_response = "None"

\* JudgeAI._batch_evaluate_with_legacy.  odd: the judge LLM's JSON carries
\* ill-typed values (a non-numeric score for the legacy evaluator,
\* unhashable strengths entries for the rubric evaluator).
BatchEvaluateLegacy(test_results, qa_pairs, odd) ==
    [i \in 1..Len(test_results) |->
        IF HasError(test_results[i]) THEN DefaultEvaluation(test_results[i])
        ELSE IF i <= Len(qa_pairs)
             THEN [res |-> test_results[i], evaluation_method |-> "legacy",
                   eval_error |-> FALSE, odd |-> odd]
             ELSE DefaultEvaluation(test_results[i])]

\* JudgeAI._batch_evaluate_with_mt_bench, with its fallback to the legacy
\* batch when the rubric batch raises.
BatchEvaluateMtBench(test_results, qa_pairs, odd) ==
    IF RubricBatchRaises(test_results, qa_pairs)
    THEN BatchEvaluateLegacy(test_results, qa_pairs, odd)
    ELSE [i \in 1..Len(test_results) |->
            IF i \in ValidIndices(test_results, qa_pairs)
            THEN [res |-> test_results[i], evaluation_method |-> "mt_bench",
                  eval_error |-> FALSE, odd |-> odd]
            ELSE DefaultEvaluation(test_results[i])]

\* JudgeAI.batch_evaluate of a judge built with use_bleurt = False, as the
\* orchestrator builds it.
batch_evaluate(mt, test_results, qa_pairs, odd) ==
    IF mt THEN BatchEvaluateMtBench(test_results, qa_pairs, odd)
    ELSE BatchEvaluateLegacy(test_results, qa_pairs, odd)

\* An LLM reply was parsed into some evaluation of the batch.
BatchAsksJudge(mt, test_results, qa_pairs) ==
    \E i \in 1..Len(test_results) :
        ~batch_evaluate(mt, test_results, qa_pairs, FALSE)[i].eval_error

\* valid_results of the metrics functions: no top-level error and an evaluation.
ValidResults(evaluated_results) ==
    {i \in 1..Len(evaluated_results) : ~HasError(evaluated_results[i].res)}

\* The rubric evaluations _calculate_mt_bench_metrics aggregates.
MtEvaluations(evaluated_results) ==
    {i \in ValidResults(evaluated_results) :
        evaluated_results[i].evaluation_method \in {"mt_bench", "mt_bench_with_bleurt"}}

\* JudgeAI._calculate_mt_bench_metrics and MTBenchEvaluator.calculate_aggregate_metrics
CalculateMtBenchMetrics(evaluated_results) ==
    [NoMetrics EXCEPT
        !.keys = {"total_evaluations", "avg_overall_score", "pass_rate",
                  "score_distribution", "dimension_averages", "common_strengths",
                  "common_weaknesses", "evaluation_method"},
        !.evaluation_method = "mt_bench",
        !.total_evaluations = Cardinality(MtEvaluations(evaluated_results))]

\* JudgeAI._calculate_legacy_metrics
CalculateLegacyMetrics(evaluated_results) ==
    [NoMetrics EXCEPT
        !.keys = {"total_questions", "successful_responses", "avg_content_similarity",
                  "avg_style_fidelity", "avg_overall_score", "pass_rate",
                  "evaluation_method"}
                 \cup (IF ValidResults(evaluated_results) = {} THEN {}
                       ELSE {"score_distribution"}),
        !.evaluation_method = "legacy",
        !.total_questions = Len(evaluated_results),
        !.successful_responses = Cardinality(ValidResults(evaluated_results))]

\* JudgeAI.calculate_aggregate_metrics
calculate_aggregate_metrics(mt, evaluated_results) ==
    IF mt THEN CalculateMtBenchMetrics(evaluated_results)
    ELSE CalculateLegacyMetrics(evaluated_results)

\* The Counter over the strengths of the rubric evaluations raises on an
\* unhashable entry; the sums of the legacy metrics raise on a non-numeric score.
MetricsRaises(mt, evaluated_results) ==
    IF mt THEN \E i \in MtEvaluations(evaluated_results) : evaluated_results[i].odd
    ELSE \E i \in ValidResults(evaluated_results) : evaluated_results[i].odd

\* The evaluation summary _run_stress_test_async logs after batch_evaluate
\* sums the overall scores of the valid results.
SummaryRaises(evaluated_results) ==
    \E i \in ValidResults(evaluated_results) :
        evaluated_results[i].evaluation_method = "legacy" /\ evaluated_results[i].odd

\* JudgeAI.calculate_multi_turn_metrics reads the five score keys of every
\* evaluation; a legacy evaluation holds the keys the LLM returned.
MultiTurnMetricsRaises(responses) ==
    \E i \in 1..Len(responses) : responses[i].evaluation = "partial"

calculate_multi_turn_metrics(mt, responses) ==
    [NoMetrics EXCEPT
        !.keys = {"avg_overall_score", "avg_relevance_score", "avg_consistency_score",
                  "avg_technical_score", "avg_clarity_score", "avg_persona_score",
                  "total_responses", "pass_rate", "evaluation_method"},
        !.evaluation_method = IF responses # <<>> /\ mt THEN "mt_bench" ELSE "legacy",
        !.total_responses = Len(responses)]

(***************************************************************************)
(* AnalyzeOrchestrator: the start calls.                                   *)
(***************************************************************************)

\* The dict a start call returns: the id is self.session_id at the return.
StartReturn(id) == [session_id |-> id, status |-> "started"]

\* A request handler runs only when no coroutine holds the event loop.
CanLaunch == running = 0 /\ Len(tasks) < MaxStarts

CanStart == CanLaunch /\ (single => session_id = 0)

\* AnalyzeOrchestrator.start_stress_test / start_content_analysis
StartSingleTurn(kind) ==
    /\ CanStart
    /\ session_id' = session_id + 1
    /\ current_session' = session_id + 1
    /\ tasks' = Append(tasks, NewTask(kind))
    /\ sessions' = Collect([sessions EXCEPT ![session_id + 1] = NewSession(kind)],
                           tasks', current_session', current_multi_turn_session)
    /\ UNCHANGED <<current_multi_turn_session, running, use_mt_bench, polled, single>>

start_stress_test == StartSingleTurn("stress")

start_content_analysis == StartSingleTurn("content")

\* AnalyzeOrchestrator.start_multi_turn_test
start_multi_turn_test ==
    /\ CanStart
    /\ \E messages \in SeqsUpTo({"user", "assistant"}, MaxMessages) :
        /\ session_id' = session_id + 1
        /\ current_multi_turn_session' = session_id + 1
        /\ tasks' = Append(tasks, NewTask("multi"))
        /\ sessions' = Collect([sessions EXCEPT ![session_id + 1] =
                                    NewMultiTurnSession(messages)],
                               tasks', current_session, current_multi_turn_session')
    /\ UNCHANGED <<current_session, running, use_mt_bench, polled, single>>

\* analyze_content, short-content path: the handler fires the content as
\* one question through TesterAI with the orchestrator's callback.
analyze_content ==
    /\ CanLaunch
    /\ tasks' = Append(tasks, [NewTask("short") EXCEPT !.pc = "fire",
                                                      !.questions = <<"text">>])
    /\ running' = Len(tasks) + 1
    /\ UNCHANGED <<session_id, current_session, current_multi_turn_session,
                   sessions, use_mt_bench, polled, single>>

(***************************************************************************)
(* The background pipelines _run_stress_test_async and                     *)
(* _run_content_analysis_async, one action per synchronous segment part.   *)
(***************************************************************************)

Pipeline(t) == tasks[t].kind \in {"stress", "content"}

\* A suspended coroutine resumes when the loop is free; a coroutine in the
\* middle of a segment continues.
Resumes(t) == running = 0

Continues(t) == running = t

ParsingStatus(kind) == IF kind = "stress" THEN "parsing_transcript" ELSE "parsing_content"

\* First step of the task: session = self.current_session, the status
\* write, and the read of the session's text (transcript_text for a stress
\* test, content_text for a content analysis: KeyError on the other kind).
Begin(t) ==
    /\ Pipeline(t)
    /\ tasks[t].pc = "init"
    /\ Resumes(t)
    /\ LET s == current_session
           k == tasks[t].kind
           mismatch == sessions[s].kind # k
       IN /\ tasks' = [tasks EXCEPT ![t].sess = s,
                                    ![t].pc = IF mismatch THEN "raise" ELSE "parse"]
          /\ running' = IF mismatch THEN t ELSE 0
          /\ sessions' = Collect(
                [sessions EXCEPT ![s].status = ParsingStatus(k),
                                 ![s].progress.current_step = ParsingStatus(k)],
                tasks', current_session, current_multi_turn_session)
    /\ UNCHANGED <<session_id, current_session, current_multi_turn_session,
                   use_mt_bench, polled, single>>

\* The writes of the pipeline when the extraction returned no pair, with
\* end_time written as the except handler writes it.
NoPairsFailureWithEndTime(session) ==
    [session EXCEPT !.status = "failed", !.error = "no_pairs", !.end_time = TRUE]

\* The writes of the pipeline when the extraction returned no pair.
NoPairsFailure(session) ==
    [session EXCEPT !.status = "failed", !.error = "no_pairs"]

\* parse_transcript / parse_content_for_analysis returns; empty list: failed.
\* Otherwise the questions are extracted and the testing stage begins.
ParseReturn(t) ==
    /\ Pipeline(t)
    /\ tasks[t].pc = "parse"
    /\ Resumes(t)
    /\ \E qa_pairs \in SeqsUpTo(PairKinds, MaxPairs) :
        LET s == tasks[t].sess
            questions == extract_questions_from_qa_pairs(qa_pairs)
        IN IF qa_pairs = <<>>
           THEN /\ tasks' = [tasks EXCEPT ![t] = Finished(tasks[t])]
                /\ running' = 0
                /\ sessions' = Collect(
                      [sessions EXCEPT ![s] = NoPairsFailure(
                                                 [@ EXCEPT !.qa_pairs = qa_pairs])],
                      tasks', current_session, current_multi_turn_session)
           ELSE IF ExtractRaises(qa_pairs)
           THEN /\ tasks' = [tasks EXCEPT ![t].pc = "raise"]
                /\ running' = t
                /\ sessions' = [sessions EXCEPT ![s].qa_pairs = qa_pairs]
           ELSE /\ tasks' = [tasks EXCEPT ![t].pc = "fire",
                                          ![t].qa_pairs = qa_pairs,
                                          ![t].questions = questions]
                /\ running' = t
                /\ sessions' =
                      [sessions EXCEPT ![s].qa_pairs = qa_pairs,
                                       ![s].questions = questions,
                                       ![s].progress.questions_total = Len(questions),
                                       ![s].status = "testing_responses",
                                       ![s].progress.current_step = "testing_responses"]
    /\ UNCHANGED <<session_id, current_session, current_multi_turn_session,
                   use_mt_bench, polled, single>>

(***************************************************************************)
(* TesterAI.fire_questions_sequentially, run by a pipeline, by the         *)
(* analyze_content handler or by a caller with its own callback.           *)
(***************************************************************************)

Fires(t) == tasks[t].kind \in {"stress", "content", "short", "call"}

\* A loop that passes index 0 to the callback at every iteration.
QuestionIndexStuck(t) == 0

\* The i of `for i, question in enumerate(questions)`: every iteration
\* appends one result.
QuestionIndex(t) == Len(tasks[t].results)

AtLoopHead(t) ==
    /\ Fires(t)
    /\ tasks[t].pc = "fire"
    /\ (Resumes(t) \/ Continues(t))

\* Loop head, next question is not a string: question[:50] raises outside
\* the try block and the exception leaves fire_questions_sequentially.
FireRaise(t) ==
    /\ AtLoopHead(t)
    /\ Len(tasks[t].results) < Len(tasks[t].questions)
    /\ tasks[t].questions[Len(tasks[t].results) + 1] = "nonstr"
    /\ tasks' = [tasks EXCEPT ![t].pc = "raise"]
    /\ running' = t
    /\ UNCHANGED <<session_id, current_session, current_multi_turn_session,
                   sessions, use_mt_bench, polled, single>>

\* Loop head, next question i: the callback is called and runs up to its
\* await of the bot.  _handle_question_callback first writes the progress
\* of the session in the slot.
FireCallback(t) ==
    /\ AtLoopHead(t)
    /\ Len(tasks[t].results) < Len(tasks[t].questions)
    /\ tasks[t].questions[Len(tasks[t].results) + 1] # "nonstr"
    /\ LET question_index == QuestionIndex(t)
       IN /\ tasks' = [tasks EXCEPT ![t].pc = "bot",
                                    ![t].invoked = Append(@, question_index)]
          /\ running' = 0
          /\ sessions' = IF tasks[t].kind # "call" /\ current_session # 0
                         THEN [sessions EXCEPT
                                 ![current_session].progress.questions_completed =
                                     question_index + 1]
                         ELSE sessions
    /\ UNCHANGED <<session_id, current_session, current_multi_turn_session,
                   use_mt_bench, polled, single>>

\* The callback returns a result dict (_handle_question_callback catches
\* every exception of the bot call); the result is appended and the loop
\* sleeps before the next question.
BotReturn(t) ==
    /\ Fires(t)
    /\ tasks[t].pc = "bot"
    /\ Resumes(t)
    /\ \E outcome \in BotOutcomes :
        tasks' = [tasks EXCEPT
                    ![t].results = Append(@, CallbackResult(tasks[t].invoked[Len(tasks[t].invoked)], outcome)),
                    ![t].pc = "fire"]
    /\ running' = 0
    /\ UNCHANGED <<session_id, current_session, current_multi_turn_session,
                   sessions, use_mt_bench, polled, single>>

\* The callback raises: the except branch appends its own dict and the
\* loop goes on to the next question without sleeping.
BotRaise(t) ==
    /\ tasks[t].kind = "call"
    /\ tasks[t].pc = "bot"
    /\ Resumes(t)
    /\ tasks' = [tasks EXCEPT ![t].results = Append(@, ExceptResult(QuestionIndex(t))),
                              ![t].pc = "fire"]
    /\ running' = t
    /\ UNCHANGED <<session_id, current_session, current_multi_turn_session,
                   sessions, use_mt_bench, polled, single>>

\* Loop end in a pipeline: the results are stored, the status becomes
\* evaluating_responses and batch_evaluate is entered.
FireReturn(t) ==
    /\ AtLoopHead(t)
    /\ Pipeline(t)
    /\ Len(tasks[t].results) = Len(tasks[t].questions)
    /\ LET s == tasks[t].sess
       IN sessions' = [sessions EXCEPT
                         ![s].test_results = tasks[t].results,
                         ![s].status = "evaluating_responses",
                         ![s].progress.current_step = "evaluating_responses"]
    /\ tasks' = [tasks EXCEPT ![t].pc = "evaluate"]
    /\ running' = IF \E i \in 1..Len(tasks[t].results) : ~HasError(tasks[t].results[i])
                  THEN 0 ELSE t
    /\ UNCHANGED <<session_id, current_session, current_multi_turn_session,
                   use_mt_bench, polled, single>>

\* Loop end elsewhere: the list is returned to the caller.  The
\* analyze_content handler answers the request with the first result.
FireReturnToCaller(t) ==
    /\ AtLoopHead(t)
    /\ ~Pipeline(t)
    /\ Len(tasks[t].results) = Len(tasks[t].questions)
    /\ tasks' = [tasks EXCEPT ![t] = IF tasks[t].kind = "short"
                                     THEN Finished(tasks[t])
                                     ELSE [tasks[t] EXCEPT !.pc = "done"]]
    /\ running' = 0
    /\ UNCHANGED <<session_id, current_session, current_multi_turn_session,
                   sessions, use_mt_bench, polled, single>>

(***************************************************************************)
(* Evaluation, metrics, completion and the except handler.                 *)
(***************************************************************************)

\* batch_evaluate returns: evaluated_results and evaluations_completed are
\* stored; the stress test then logs its evaluation summary; the status
\* becomes calculating_metrics.
EvalReturn(t) ==
    /\ Pipeline(t)
    /\ tasks[t].pc = "evaluate"
    /\ (Resumes(t) \/ Continues(t))
    /\ \E odd \in BOOLEAN :
        /\ odd => BatchAsksJudge(use_mt_bench, tasks[t].results, tasks[t].qa_pairs)
        /\ LET s == tasks[t].sess
               evaluated_results ==
                   batch_evaluate(use_mt_bench, tasks[t].results, tasks[t].qa_pairs, odd)
               stored == [sessions EXCEPT
                            ![s].evaluated_results = evaluated_results,
                            ![s].progress.evaluations_completed = Len(evaluated_results)]
           IN IF tasks[t].kind = "stress" /\ SummaryRaises(evaluated_results)
              THEN /\ tasks' = [tasks EXCEPT ![t].pc = "raise"]
                   /\ sessions' = stored
              ELSE /\ tasks' = [tasks EXCEPT ![t].pc = "metrics",
                                             ![t].evaluated = evaluated_results]
                   /\ sessions' = [stored EXCEPT
                                     ![s].status = "calculating_metrics",
                                     ![s].progress.current_step = "calculating_metrics"]
    /\ running' = t
    /\ UNCHANGED <<session_id, current_session, current_multi_turn_session,
                   use_mt_bench, polled, single>>

\* calculate_aggregate_metrics, then the completion writes.
Metrics(t) ==
    /\ Pipeline(t)
    /\ tasks[t].pc = "metrics"
    /\ Continues(t)
    /\ LET s == tasks[t].sess
       IN IF MetricsRaises(use_mt_bench, tasks[t].evaluated)
          THEN /\ tasks' = [tasks EXCEPT ![t].pc = "raise"]
               /\ running' = t
               /\ sessions' = sessions
          ELSE /\ tasks' = [tasks EXCEPT ![t] = Finished(tasks[t])]
               /\ running' = 0
               /\ sessions' = Collect(
                     [sessions EXCEPT
                        ![s].aggregate_metrics =
                            calculate_aggregate_metrics(use_mt_bench, tasks[t].evaluated),
                        ![s].status = "completed",
                        ![s].end_time = TRUE,
                        ![s].duration = TRUE,
                        ![s].progress.current_step = "completed"],
                     tasks', current_session, current_multi_turn_session)
    /\ UNCHANGED <<session_id, current_session, current_multi_turn_session,
                   use_mt_bench, polled, single>>

\* except Exception at the top of the three pipeline coroutines: status,
\* error and end_time of the session in the slot are written.
Raise(t) ==
    /\ tasks[t].kind \in {"stress", "content", "multi"}
    /\ tasks[t].pc = "raise"
    /\ Continues(t)
    /\ tasks' = [tasks EXCEPT ![t] = Finished(tasks[t])]
    /\ running' = 0
    /\ LET slot == IF tasks[t].kind = "multi" THEN current_multi_turn_session
                   ELSE current_session
       IN sessions' = Collect(
             IF slot # 0
             THEN [sessions EXCEPT ![slot].status = "failed",
                                   ![slot].error = "exception",
                                   ![slot].end_time = TRUE]
             ELSE sessions,
             tasks', current_session, current_multi_turn_session)
    /\ UNCHANGED <<session_id, current_session, current_multi_turn_session,
                   use_mt_bench, polled, single>>

(***************************************************************************)
(* The multi-turn pipeline _run_multi_turn_test_async.                     *)
(***************************************************************************)

\* First step of the task: session = self.current_multi_turn_session.
BeginMultiTurn(t) ==
    /\ tasks[t].kind = "multi"
    /\ tasks[t].pc = "init"
    /\ Resumes(t)
    /\ tasks' = [tasks EXCEPT ![t].sess = current_multi_turn_session,
                              ![t].pc = "mt_loop"]
    /\ running' = t
    /\ sessions' = Collect(sessions, tasks', current_session, current_multi_turn_session)
    /\ UNCHANGED <<session_id, current_session, current_multi_turn_session,
                   use_mt_bench, polled, single>>

\* Indices (from 0) of the user messages not yet processed.
UserMessagesFrom(messages, i) ==
    {j \in i..(Len(messages) - 1) : messages[j + 1] = "user"}

\* The for loop advances to the next user message and awaits the bot.
MultiTurnNext(t) ==
    /\ tasks[t].kind = "multi"
    /\ tasks[t].pc = "mt_loop"
    /\ Continues(t)
    /\ UserMessagesFrom(sessions[tasks[t].sess].messages, tasks[t].i) # {}
    /\ tasks' = [tasks EXCEPT
                   ![t].i = LET S == UserMessagesFrom(sessions[tasks[t].sess].messages, @)
                            IN  CHOOSE x \in S : \A y \in S : x <= y,
                   ![t].pc = "mt_turn"]
    /\ running' = 0
    /\ UNCHANGED <<session_id, current_session, current_multi_turn_session,
                   sessions, use_mt_bench, polled, single>>

\* The bot call raises (the exception reaches the handler), or the bot
\* answers and evaluate_multi_turn_response, given session["messages"][:i]
\* as conversation_history, returns: the response is appended and
\* processed_messages is written.
MultiTurnReturn(t) ==
    /\ tasks[t].kind = "multi"
    /\ tasks[t].pc = "mt_turn"
    /\ Resumes(t)
    /\ running' = t
    /\ \E outcome \in {"ok", "raises"}, evaluation \in {"full", "partial"} :
        /\ evaluation = "partial" => (outcome = "ok" /\ ~use_mt_bench)
        /\ LET s == tasks[t].sess
               i == tasks[t].i
           IN IF outcome = "raises"
              THEN /\ tasks' = [tasks EXCEPT ![t].pc = "raise"]
                   /\ sessions' = sessions
              ELSE /\ tasks' = [tasks EXCEPT ![t].pc = "mt_loop", ![t].i = i + 1]
                   /\ sessions' = [sessions EXCEPT
                         ![s].responses =
                             Append(@, [message_index |-> i,
                                        history |-> SubSeq(sessions[s].messages, 1, i),
                                        evaluation |-> evaluation]),
                         ![s].progress.processed_messages = i + 1]
    /\ UNCHANGED <<session_id, current_session, current_multi_turn_session,
                   use_mt_bench, polled, single>>

\* After the loop: calculate_multi_turn_metrics and the completion writes.
MultiTurnFinish(t) ==
    /\ tasks[t].kind = "multi"
    /\ tasks[t].pc = "mt_loop"
    /\ Continues(t)
    /\ UserMessagesFrom(sessions[tasks[t].sess].messages, tasks[t].i) = {}
    /\ LET s == tasks[t].sess
       IN IF MultiTurnMetricsRaises(sessions[s].responses)
          THEN /\ tasks' = [tasks EXCEPT ![t].pc = "raise"]
               /\ running' = t
               /\ sessions' = sessions
          ELSE /\ tasks' = [tasks EXCEPT ![t] = Finished(tasks[t])]
               /\ running' = 0
               /\ sessions' = Collect(
                     [sessions EXCEPT
                        ![s].aggregate_metrics =
                            calculate_multi_turn_metrics(use_mt_bench, sessions[s].responses),
                        ![s].status = "completed",
                        ![s].end_time = TRUE,
                        ![s].duration = TRUE,
                        ![s].progress.current_step = "completed"],
                     tasks', current_session, current_multi_turn_session)
    /\ UNCHANGED <<session_id, current_session, current_multi_turn_session,
                   use_mt_bench, polled, single>>

(***************************************************************************)
(* Status and results snapshots.                                           *)
(***************************************************************************)

\* AnalyzeOrchestrator.get_session_status: reads session["duration"]
\* whenever the session has an end_time.
SessionStatus ==
    IF current_session = 0
    THEN [NoPoll EXCEPT !.op = "get_session_status", !.outcome = "None"]
    ELSE IF sessions[current_session].end_time /\ ~sessions[current_session].duration
    THEN [NoPoll EXCEPT !.op = "get_session_status", !.outcome = "KeyError"]
    ELSE [op |-> "get_session_status", outcome |-> "snapshot",
          status |-> sessions[current_session].status,
          error |-> sessions[current_session].error]

\* AnalyzeOrchestrator.get_detailed_results: session_info is the status snapshot.
DetailedResults ==
    IF \/ current_session = 0
       \/ sessions[current_session].status \notin {"completed", "failed"}
    THEN [NoPoll EXCEPT !.op = "get_detailed_results", !.outcome = "None"]
    ELSE [SessionStatus EXCEPT !.op = "get_detailed_results"]

\* AnalyzeOrchestrator.get_multi_turn_results: the session dict itself when
\* its status is "completed".
MultiTurnResults ==
    IF \/ current_multi_turn_session = 0
       \/ sessions[current_multi_turn_session].status # "completed"
    THEN [NoPoll EXCEPT !.op = "get_multi_turn_results", !.outcome = "None"]
    ELSE [op |-> "get_multi_turn_results", outcome |-> "snapshot",
          status |-> sessions[current_multi_turn_session].status,
          error |-> sessions[current_multi_turn_session].error]

get_multi_turn_results ==
    /\ running = 0
    /\ polled' = MultiTurnResults
    /\ UNCHANGED <<session_id, current_session, current_multi_turn_session,
                   sessions, tasks, running, use_mt_bench, single>>

get_session_status ==
    /\ running = 0
    /\ polled' = SessionStatus
    /\ UNCHANGED <<session_id, current_session, current_multi_turn_session,
                   sessions, tasks, running, use_mt_bench, single>>

get_detailed_results ==
    /\ running = 0
    /\ polled' = DetailedResults
    /\ UNCHANGED <<session_id, current_session, current_multi_turn_session,
                   sessions, tasks, running, use_mt_bench, single>>

(***************************************************************************)
(* JudgeAI in every strategy configuration, with the scores it stores.     *)
(* A score is a whole number of 1/One: One stands for 1.0.  The values     *)
(* below are chosen so that every product and quotient the code computes   *)
(* is a whole number of 1/One.                                             *)
(***************************************************************************)

One == 400

\* The pass threshold 0.7 of the rubric and legacy metrics.
PassMark == (7 * One) \div 10

\* The score BLEURTScorer returns when scoring raised: 0.1.
Sentinel == One \div 10

\* JudgeAI._normalize_bleurt_for_weighting
normalize_bleurt_for_weighting(raw_bleurt_score) ==
    LET x == (raw_bleurt_score + 2 * One) \div 4
    IN  IF x < 0 THEN 0 ELSE IF x > One THEN One ELSE x  \* max(0.0, min(1.0, x))

\* 0.7 * overall_score + 0.3 * normalized_bleurt
WeightedScore(overall_score, bleurt_score) ==
    (7 * overall_score) \div 10 + (3 * normalize_bleurt_for_weighting(bleurt_score)) \div 10

\* The "answer" of a QA pair, as the parser's unvalidated JSON gives it: a
\* non-blank string, an empty or blank string (a missing key reads as ""),
\* or null.
AnswerKinds == {"text", "empty", "null"}

\* BLEURTScorer: the model fails to load, the model loads and scoring
\* raises, or the model loads and scores.
ScorerKinds == {"load_fails", "compute_fails", "scores"}

\* BLEURTScorer._load_model raises, and compute_score and
\* batch_compute_scores call it before their try block.
ScorerRaises(scorer) == scorer = "load_fails"

\* What compute_score returns and batch_compute_scores returns for every
\* pair: the sentinel when scoring raised, else the sigmoid of the raw
\* score, a number between 0 and 1 (here 0.5).
ScorerOutput(scorer) == IF scorer = "compute_fails" THEN Sentinel ELSE One \div 2

\* The judge LLM's answer to one evaluation prompt: the call or the parsing
\* raises, or the JSON carries an overall_score (0.7, or 1.5: the number is
\* taken as it is), or it carries 0.8 and a strengths list with an
\* unhashable entry.
JudgeReplies ==
    {[kind |-> "raises", overall_score |-> 0],
     [kind |-> "json", overall_score |-> PassMark],
     [kind |-> "json", overall_score |-> (3 * One) \div 2],
     [kind |-> "odd", overall_score |-> (4 * One) \div 5]}

\* An evaluation dict.  keys: which of the optional keys it has.
\* response_of / answer_of / bleurt_of: the index of the test result whose
\* bot_response was judged, of the QA pair whose answer was given to the
\* judge as the expected answer, and of the test result whose pair the
\* semantic score was computed from (0: none).
NoEvaluation ==
    [evaluation_method |-> "none", overall_score |-> 0, keys |-> {},
     original_mt_bench_score |-> 0, original_legacy_score |-> 0,
     bleurt_score |-> 0, error |-> "absent",
     response_of |-> 0, answer_of |-> 0, bleurt_of |-> 0, odd |-> FALSE]

\* JudgeAI._default_evaluation
ZeroEvaluation(error_msg) ==
    [NoEvaluation EXCEPT
        !.evaluation_method = "legacy", !.keys = {"error"}, !.error = error_msg]

\* result.get("error", default): the value of the key when the dict has it.
ErrorOr(result, default) == IF result.error = "absent" THEN default ELSE result.error

\* MTBenchEvaluator.evaluate_single_response, stored by the merge loop of
\* _batch_evaluate_with_mt_bench: every exception of the LLM call is caught
\* and gives the default rubric evaluation (overall 0.0).
RubricEvaluation(reply, i, p) ==
    [NoEvaluation EXCEPT
        !.evaluation_method = "mt_bench",
        !.overall_score = IF reply.kind = "raises" THEN 0 ELSE reply.overall_score,
        !.odd = reply.kind = "odd",
        !.response_of = i,
        !.answer_of = p]

\* A fusion that keeps the value it has just written as the original score.
FuseRubricKeepingFused(evaluation, bleurt_score, i) ==
    [evaluation EXCEPT
        !.evaluation_method = "mt_bench_with_bleurt",
        !.keys = @ \cup {"bleurt_score", "original_mt_bench_score"},
        !.bleurt_score = bleurt_score,
        !.bleurt_of = i,
        !.overall_score = WeightedScore(evaluation.overall_score, bleurt_score),
        !.original_mt_bench_score = WeightedScore(evaluation.overall_score, bleurt_score)]

\* The fusion of the merge loop of _batch_evaluate_with_mt_bench.
FuseRubric(evaluation, bleurt_score, i) ==
    [evaluation EXCEPT
        !.evaluation_method = "mt_bench_with_bleurt",
        !.keys = @ \cup {"bleurt_score", "original_mt_bench_score"},
        !.bleurt_score = bleurt_score,
        !.bleurt_of = i,
        !.overall_score = WeightedScore(evaluation.overall_score, bleurt_score),
        !.original_mt_bench_score = evaluation.overall_score]

\* The fusion of _evaluate_with_legacy: original_legacy_score is read after
\* overall_score was overwritten.
FuseLegacy(evaluation, bleurt_score, i) ==
    [evaluation EXCEPT
        !.keys = @ \cup {"bleurt_score", "original_legacy_score"},
        !.bleurt_score = bleurt_score,
        !.bleurt_of = i,
        !.overall_score = WeightedScore(evaluation.overall_score, bleurt_score),
        !.original_legacy_score = WeightedScore(evaluation.overall_score, bleurt_score)]

\* JudgeAI._evaluate_with_legacy for test result i and the answer of pair i.
LegacyEvaluation(bl, scorer, answer, reply, i) ==
    IF reply.kind = "raises" THEN
        [ZeroEvaluation("Evaluation error") EXCEPT !.response_of = i, !.answer_of = i]
    ELSE LET evaluation ==
                 [NoEvaluation EXCEPT
                     !.evaluation_method = "legacy",
                     !.overall_score = reply.overall_score,
                     !.response_of = i,
                     !.answer_of = i]
         IN  IF bl /\ answer = "text" /\ ~ScorerRaises(scorer)
             THEN FuseLegacy(evaluation, ScorerOutput(scorer), i)
             ELSE evaluation

\* The test results _batch_evaluate_with_legacy asks the judge LLM about.
LegacyAsked(test_results, qa_pairs) ==
    {i \in 1..Len(test_results) : ~HasError(test_results[i]) /\ i <= Len(qa_pairs)}

\* JudgeAI._batch_evaluate_with_legacy
ScoredBatchLegacy(bl, scorer, test_results, qa_pairs, replies) ==
    [i \in 1..Len(test_results) |->
        [res |-> test_results[i],
         evaluation |->
            IF HasError(test_results[i]) THEN ZeroEvaluation(test_results[i].error)
            ELSE IF i <= Len(qa_pairs)
                 THEN LegacyEvaluation(bl, scorer, qa_pairs[i], replies[i], i)
                 ELSE ZeroEvaluation("No expected answer found")]]

\* The valid test results whose pair the rubric batch scores semantically:
\* none when stripping a null answer raised inside the inner try.
RubricScored(bl, test_results, qa_pairs) ==
    IF bl /\ ~(\E i \in ValidIndices(test_results, qa_pairs) : qa_pairs[i] = "null")
    THEN {i \in ValidIndices(test_results, qa_pairs) : qa_pairs[i] = "text"}
    ELSE {}

\* The rubric batch builds its QA pairs from the compacted list of valid
\* questions and reads qa_pairs at the position in that list.
PositionInValid(i, test_results, qa_pairs) ==
    Cardinality({k \in ValidIndices(test_results, qa_pairs) : k <= i})

\* JudgeAI._batch_evaluate_with_mt_bench
ScoredBatchMtBench(bl, scorer, test_results, qa_pairs, replies) ==
    IF RubricBatchRaises(test_results, qa_pairs)
    THEN ScoredBatchLegacy(bl, scorer, test_results, qa_pairs, replies)
    ELSE [i \in 1..Len(test_results) |->
            [res |-> test_results[i],
             evaluation |->
                IF i \in ValidIndices(test_results, qa_pairs)
                THEN LET mt_eval == RubricEvaluation(replies[i], i,
                                        PositionInValid(i, test_results, qa_pairs))
                     IN  IF i \in RubricScored(bl, test_results, qa_pairs)
                            /\ ~ScorerRaises(scorer)
                         THEN FuseRubric(mt_eval, ScorerOutput(scorer), i)
                         ELSE mt_eval
                ELSE ZeroEvaluation(ErrorOr(test_results[i], "No expected answer found"))]]

\* The valid pairs of _batch_evaluate_with_bleurt_only.
SemanticValid(test_results, qa_pairs) ==
    {i \in 1..Len(test_results) :
        ~HasError(test_results[i]) /\ i <= Len(qa_pairs) /\ qa_pairs[i] = "text"}

\* The first loop of _batch_evaluate_with_bleurt_only raises on a null
\* answer (strip) and on the None response of a valid pair (slice).
SemanticLoopRaises(test_results, qa_pairs) ==
    \E i \in 1..Len(test_results) :
        /\ ~HasError(test_results[i])
        /\ i <= Len(qa_pairs)
        /\ \/ qa_pairs[i] = "null"
           \/ qa_pairs[i] = "text" /\ test_results[i].bot_response = "None"

\* JudgeAI._batch_evaluate_with_bleurt_only
ScoredBatchBleurtOnly(scorer, test_results, qa_pairs) ==
    IF \/ SemanticLoopRaises(test_results, qa_pairs)
       \/ SemanticValid(test_results, qa_pairs) # {} /\ ScorerRaises(scorer)
    THEN [i \in 1..Len(test_results) |->
            [res |-> test_results[i], evaluation |-> ZeroEvaluation("BLEURT batch error")]]
    ELSE [i \in 1..Len(test_results) |->
            [res |-> test_results[i],
             evaluation |->
                IF i \in SemanticValid(test_results, qa_pairs)
                THEN [NoEvaluation EXCEPT
                         !.evaluation_method = "bleurt_only",
                         !.overall_score = ScorerOutput(scorer),
                         !.keys = {"bleurt_score"},
                         !.bleurt_score = ScorerOutput(scorer),
                         !.bleurt_of = i,
                         !.response_of = i,
                         !.answer_of = i]
                ELSE ZeroEvaluation(ErrorOr(test_results[i], "No expected answer"))]]

\* A dispatch that tests use_bleurt before use_mt_bench.
BatchStrategySemanticFirst(mt, bl) ==
    IF bl THEN "semantic" ELSE IF mt THEN "rubric" ELSE "legacy"

\* The if / elif / else of JudgeAI.batch_evaluate.
BatchStrategy(mt, bl) ==
    IF mt THEN "rubric" ELSE IF bl THEN "semantic" ELSE "legacy"

\* JudgeAI.batch_evaluate
scored_batch_evaluate(mt, bl, scorer, test_results, qa_pairs, replies) ==
    CASE BatchStrategy(mt, bl) = "rubric" ->
            ScoredBatchMtBench(bl, scorer, test_results, qa_pairs, replies)
      [] BatchStrategy(mt, bl) = "semantic" ->
            ScoredBatchBleurtOnly(scorer, test_results, qa_pairs)
      [] BatchStrategy(mt, bl) = "legacy" ->
            ScoredBatchLegacy(bl, scorer, test_results, qa_pairs, replies)

\* The test results whose evaluation is made from a reply of the judge LLM.
Asked(mt, bl, test_results, qa_pairs) ==
    IF mt /\ ~RubricBatchRaises(test_results, qa_pairs)
    THEN ValidIndices(test_results, qa_pairs)
    ELSE IF ~mt /\ bl THEN {}
    ELSE LegacyAsked(test_results, qa_pairs)

\* How the call of the semantic scorer made by batch_evaluate ended:
\* "none" (no call), "returned" or "raised".
ScorerCall(mt, bl, scorer, test_results, qa_pairs, replies) ==
    LET called ==
            IF mt /\ ~RubricBatchRaises(test_results, qa_pairs)
            THEN RubricScored(bl, test_results, qa_pairs) # {}
            ELSE IF ~mt /\ bl
            THEN ~SemanticLoopRaises(test_results, qa_pairs)
                 /\ SemanticValid(test_results, qa_pairs) # {}
            ELSE bl /\ \E i \in LegacyAsked(test_results, qa_pairs) :
                        qa_pairs[i] = "text" /\ replies[i].kind # "raises"
    IN  IF ~called THEN "none"
        ELSE IF ScorerRaises(scorer) THEN "raised" ELSE "returned"

\* A metrics dict.  overall_scores: the score each aggregated evaluation
\* enters the average with; passing / aggregated is the pass_rate;
\* raises: the call raised instead of returning a dict.
NoScoredMetrics ==
    [raises |-> FALSE, evaluation_method |-> "none", keys |-> {},
     total_questions |-> 0, total_evaluations |-> 0, successful_responses |-> 0,
     aggregated |-> {}, overall_scores |-> <<>>, passing |-> 0,
     score_distribution |-> [excellent |-> 0, good |-> 0, fair |-> 0, poor |-> 0]]

\* A histogram whose "good" bucket starts above 0.7.
ScoreDistributionAboveMark(overall_scores) ==
    LET Count(lo, hi) ==
            Cardinality({i \in DOMAIN overall_scores :
                            lo <= overall_scores[i] /\ overall_scores[i] < hi})
    IN  [excellent |-> Cardinality({i \in DOMAIN overall_scores :
                                      overall_scores[i] >= (9 * One) \div 10}),
         good |-> Count(PassMark + 1, (9 * One) \div 10),
         fair |-> Count(One \div 2, PassMark),
         poor |-> Cardinality({i \in DOMAIN overall_scores :
                                 overall_scores[i] < One \div 2})]

\* The score_distribution dict of MTBenchEvaluator.calculate_aggregate_metrics
\* and of JudgeAI._calculate_legacy_metrics: s >= 0.9, 0.7 <= s < 0.9,
\* 0.5 <= s < 0.7, s < 0.5.
ScoreDistribution(overall_scores) ==
    LET Count(lo, hi) ==
            Cardinality({i \in DOMAIN overall_scores :
                            lo <= overall_scores[i] /\ overall_scores[i] < hi})
    IN  [excellent |-> Cardinality({i \in DOMAIN overall_scores :
                                      overall_scores[i] >= (9 * One) \div 10}),
         good |-> Count(PassMark, (9 * One) \div 10),
         fair |-> Count(One \div 2, PassMark),
         poor |-> Cardinality({i \in DOMAIN overall_scores :
                                 overall_scores[i] < One \div 2})]

\* The rubric evaluations _calculate_mt_bench_metrics aggregates.
ScoredMtEvaluations(evaluated_results) ==
    {i \in ValidResults(evaluated_results) :
        evaluated_results[i].evaluation.evaluation_method
            \in {"mt_bench", "mt_bench_with_bleurt"}}

\* eval_data.get("original_mt_bench_score", eval_data["overall_score"])
OriginalScore(evaluation) ==
    IF "original_mt_bench_score" \in evaluation.keys
    THEN evaluation.original_mt_bench_score
    ELSE evaluation.overall_score

\* MTBenchEvaluator._create_default_metrics
DefaultMetrics ==
    [NoScoredMetrics EXCEPT
        !.evaluation_method = "mt_bench",
        !.keys = {"total_evaluations", "avg_overall_score", "pass_rate",
                  "score_distribution"}]

\* JudgeAI._calculate_mt_bench_metrics and
\* MTBenchEvaluator.calculate_aggregate_metrics: the Counter over the
\* strengths raises on an unhashable entry.
ScoredMtBenchMetrics(evaluated_results) ==
    LET mt_evaluations == ScoredMtEvaluations(evaluated_results)
        scores == [i \in mt_evaluations |-> OriginalScore(evaluated_results[i].evaluation)]
    IN  IF mt_evaluations = {} THEN DefaultMetrics
        ELSE IF \E i \in mt_evaluations : evaluated_results[i].evaluation.odd
        THEN [NoScoredMetrics EXCEPT !.raises = TRUE]
        ELSE [DefaultMetrics EXCEPT
                !.total_evaluations = Cardinality(mt_evaluations),
                !.aggregated = mt_evaluations,
                !.overall_scores = scores,
                !.passing = Cardinality({i \in mt_evaluations : scores[i] >= PassMark}),
                !.score_distribution = ScoreDistribution(scores)]

\* JudgeAI._calculate_bleurt_only_metrics: the pass_rate counts the
\* semantic scores that are >= 0.0.
ScoredBleurtOnlyMetrics(evaluated_results) ==
    LET valid_results == ValidResults(evaluated_results)
        scored == {i \in valid_results :
                      "bleurt_score" \in evaluated_results[i].evaluation.keys}
        zero == [NoScoredMetrics EXCEPT
                    !.evaluation_method = "bleurt_only",
                    !.keys = {"total_questions", "successful_responses",
                              "avg_overall_score", "avg_bleurt_score", "pass_rate"},
                    !.total_questions = Len(evaluated_results)]
    IN  IF valid_results = {} THEN zero
        ELSE IF scored = {}
        THEN [zero EXCEPT !.keys = @ \cup {"error"},
                          !.successful_responses = Cardinality(valid_results)]
        ELSE [zero EXCEPT
                !.successful_responses = Cardinality(valid_results),
                !.aggregated = scored,
                !.overall_scores =
                    [i \in scored |-> evaluated_results[i].evaluation.overall_score],
                !.passing = Cardinality({i \in scored :
                                evaluated_results[i].evaluation.bleurt_score >= 0})]

\* JudgeAI._calculate_legacy_metrics
ScoredLegacyMetrics(evaluated_results) ==
    LET valid_results == ValidResults(evaluated_results)
        scores == [i \in valid_results |-> evaluated_results[i].evaluation.overall_score]
    IN  [NoScoredMetrics EXCEPT
            !.evaluation_method = "legacy",
            !.keys = {"total_questions", "successful_responses",
                      "avg_overall_score", "pass_rate"}
                     \cup (IF valid_results = {} THEN {} ELSE {"score_distribution"}),
            !.total_questions = Len(evaluated_results),
            !.successful_responses = Cardinality(valid_results),
            !.aggregated = valid_results,
            !.overall_scores = scores,
            !.passing = Cardinality({i \in valid_results : scores[i] >= PassMark}),
            !.score_distribution = ScoreDistribution(scores)]

\* The if / elif / else of JudgeAI.calculate_aggregate_metrics.
MetricsStrategy(mt, bl) ==
    IF mt THEN "rubric" ELSE IF bl THEN "semantic" ELSE "legacy"

\* JudgeAI.calculate_aggregate_metrics
scored_aggregate_metrics(mt, bl, evaluated_results) ==
    CASE MetricsStrategy(mt, bl) = "rubric" -> ScoredMtBenchMetrics(evaluated_results)
      [] MetricsStrategy(mt, bl) = "semantic" -> ScoredBleurtOnlyMetrics(evaluated_results)
      [] MetricsStrategy(mt, bl) = "legacy" -> ScoredLegacyMetrics(evaluated_results)

\* A metrics call that writes the original rubric score back over the
\* fused overall_score of the entries it read.
AfterMetricsUnfused(evaluated_results) ==
    [i \in 1..Len(evaluated_results) |->
        [evaluated_results[i] EXCEPT
            !.evaluation.overall_score = OriginalScore(evaluated_results[i].evaluation)]]

\* The evaluated-results list after calculate_aggregate_metrics returned:
\* the metrics functions build lists and dicts of their own and assign to
\* no entry of the list they were given.
AfterMetrics(evaluated_results) == evaluated_results

\* No JudgeAI call has been made.
NoJudge ==
    [phase |-> "none", use_bleurt |-> FALSE, scorer |-> "scores",
     test_results |-> <<>>, qa_pairs |-> <<>>, replies |-> <<>>,
     evaluated_results |-> <<>>, scorer_call |-> "none", metrics |-> <<>>,
     batch_strategy |-> "none", metrics_strategy |-> "none"]

\* The test results a caller hands to batch_evaluate: callback dicts, in
\* the order of their question_index.
TestResultLists ==
    UNION {[1..n -> BotOutcomes] : n \in 0..MaxResults}

\* batch_evaluate(test_results, qa_pairs), the judge LLM answering every
\* prompt with one of JudgeReplies.
JudgeBatchEvaluate ==
    /\ judge.phase = "input"
    /\ \E replies \in [1..Len(judge.test_results) -> JudgeReplies] :
        /\ \A i \in 1..Len(judge.test_results) :
              i \notin Asked(use_mt_bench, judge.use_bleurt,
                             judge.test_results, judge.qa_pairs)
                  => replies[i] = [kind |-> "raises", overall_score |-> 0]
        /\ judge' = [judge EXCEPT
              !.phase = "evaluated",
              !.replies = replies,
              !.batch_strategy = BatchStrategy(use_mt_bench, judge.use_bleurt),
              !.evaluated_results =
                  scored_batch_evaluate(use_mt_bench, judge.use_bleurt, judge.scorer,
                                        judge.test_results, judge.qa_pairs, replies),
              !.scorer_call =
                  ScorerCall(use_mt_bench, judge.use_bleurt, judge.scorer,
                             judge.test_results, judge.qa_pairs, replies)]
    /\ UNCHANGED <<session_id, current_session, current_multi_turn_session, sessions,
                   tasks, running, use_mt_bench, polled, single, call>>

\* calculate_aggregate_metrics(evaluated_results), called a first and a
\* second time on the list batch_evaluate returned.
JudgeCalculateMetrics ==
    /\ judge.phase = "evaluated"
    /\ Len(judge.metrics) < 2
    /\ judge' = [judge EXCEPT
          !.metrics = Append(@, scored_aggregate_metrics(use_mt_bench, judge.use_bleurt,
                                                         judge.evaluated_results)),
          !.metrics_strategy = MetricsStrategy(use_mt_bench, judge.use_bleurt),
          !.evaluated_results = AfterMetrics(@)]
    /\ UNCHANGED <<session_id, current_session, current_multi_turn_session, sessions,
                   tasks, running, use_mt_bench, polled, single, call>>

\* The if / elif / else of JudgeAI.evaluate_response.
EvaluateStrategy(mt, bl) ==
    IF mt THEN "rubric" ELSE IF bl THEN "semantic" ELSE "legacy"

\* JudgeAI._evaluate_with_mt_bench: the rubric evaluation, fused with the
\* semantic score when the expected answer is truthy; evaluation_method
\* stays "mt_bench".
EvaluateWithMtBench(bl, scorer, answer, reply) ==
    LET mt_evaluation == RubricEvaluation(reply, 1, 1)
    IN  IF bl /\ answer = "text" /\ ~ScorerRaises(scorer)
        THEN [FuseRubric(mt_evaluation, ScorerOutput(scorer), 1)
                 EXCEPT !.evaluation_method = "mt_bench"]
        ELSE mt_evaluation

\* JudgeAI._evaluate_with_bleurt_only
EvaluateWithBleurtOnly(scorer, answer) ==
    IF answer # "text" THEN ZeroEvaluation("No expected answer for BLEURT")
    ELSE IF ScorerRaises(scorer) THEN ZeroEvaluation("BLEURT evaluation error")
    ELSE [NoEvaluation EXCEPT
             !.evaluation_method = "bleurt_only",
             !.overall_score = ScorerOutput(scorer),
             !.keys = {"bleurt_score"},
             !.bleurt_score = ScorerOutput(scorer),
             !.bleurt_of = 1,
             !.response_of = 1,
             !.answer_of = 1]

\* JudgeAI.evaluate_response
evaluate_response(mt, bl, scorer, answer, reply) ==
    [strategy |-> EvaluateStrategy(mt, bl),
     evaluation |->
        CASE EvaluateStrategy(mt, bl) = "rubric" ->
                EvaluateWithMtBench(bl, scorer, answer, reply)
          [] EvaluateStrategy(mt, bl) = "semantic" ->
                EvaluateWithBleurtOnly(scorer, answer)
          [] EvaluateStrategy(mt, bl) = "legacy" ->
                LegacyEvaluation(bl, scorer, answer, reply, 1)]

\* evaluate_response(question, bot_response, expected_answer) of the JudgeAI
\* that also evaluates the batch.
JudgeEvaluateResponse ==
    /\ call.phase = "input"
    /\ call.op = "evaluate_response"
    /\ call' = [call EXCEPT
          !.phase = "returned",
          !.result = evaluate_response(use_mt_bench, judge.use_bleurt, judge.scorer,
                                       call.answer, call.reply)]
    /\ UNCHANGED <<session_id, current_session, current_multi_turn_session, sessions,
                   tasks, running, use_mt_bench, polled, single, judge>>

(***************************************************************************)
(* MTBenchEvaluator.evaluate_single_response, called on its own.           *)
(* An exception is the name of its class, "none" when nothing was raised.  *)
(***************************************************************************)

\* A value of the judge LLM's JSON that the parser hands to float():
\* the key is missing, a number, a string float() parses, any other
\* string (ValueError), or null (TypeError).
ScoreKinds == {"missing", "number", "numeric_string", "string", "null"}

\* self.evaluation_dimensions: the five dimensions of the rubric.
Dimensions == {"relevance", "accuracy", "clarity", "depth", "helpfulness"}

\* What the judge LLM does with one prompt: the call raises, or it returns
\* a text without braces, a text whose braces hold no valid JSON, or a
\* JSON object.  Its "dimension_scores" value is missing, a dict of
\* numbers, a dict with a non-numeric string, a dict with a null, a dict of
\* numbers with one more key whose value is a string, or a list; its
\* "reasoning" value is missing, a string, or null.  dimensions: the
\* rubric dimensions that are keys of the dict.
RubricReplies ==
    {[call |-> "raises", text |-> "none", overall_score |-> "missing",
      dimension_scores |-> "missing", confidence |-> "missing", reasoning |-> "missing",
      dimensions |-> {}]}
    \cup
    {[call |-> "returns", text |-> text, overall_score |-> "missing",
      dimension_scores |-> "missing", confidence |-> "missing", reasoning |-> "missing",
      dimensions |-> {}] :
        text \in {"no_braces", "invalid_json"}}
    \cup
    [call : {"returns"}, text : {"json"}, overall_score : ScoreKinds,
     dimension_scores : {"missing", "list"},
     confidence : ScoreKinds,
     reasoning : {"missing", "string", "null"},
     dimensions : {{}}]
    \cup
    [call : {"returns"}, text : {"json"}, overall_score : ScoreKinds,
     dimension_scores : {"string", "null", "extra_string"},
     confidence : ScoreKinds,
     reasoning : {"missing", "string", "null"},
     dimensions : {Dimensions}]
    \cup
    [call : {"returns"}, text : {"json"}, overall_score : ScoreKinds,
     dimension_scores : {"numbers"},
     confidence : ScoreKinds,
     reasoning : {"missing", "string", "null"},
     dimensions : SUBSET Dimensions]

\* float(value): the exception it raises.
FloatRaises(kind) ==
    CASE kind = "string" -> "ValueError"
      [] kind = "null" -> "TypeError"
      [] OTHER -> "none"

\* float(data.get(key, default)) when it does not raise.
FloatValue(kind, default) == IF kind = "missing" THEN default ELSE (4 * One) \div 5

\* The loop of _parse_evaluation_response over the evaluation dimensions:
\* float() of a present value, item assignment for a missing one.
DimensionsRaise(kind) ==
    CASE kind = "string" -> "ValueError"
      [] kind \in {"null", "list"} -> "TypeError"
      [] OTHER -> "none"

\* An MTBenchEvaluation.  dimension_scores: "zero" (every dimension 0.0),
\* "scores", or "scores_and_string" (one more key with a string value);
\* dimensions: the score of each rubric dimension.
\* reasoning: "error" (the text "Evaluation failed: ..."), "text", "None".
\* MTBenchEvaluator._create_default_evaluation builds the one in which
\* every score is 0.0.
CreateDefaultEvaluation ==
    [raises |-> "none", overall_score |-> 0, dimension_scores |-> "zero",
     dimensions |-> [dim \in Dimensions |-> 0],
     confidence |-> 0, reasoning |-> "error", evaluation_method |-> "mt_bench"]

\* A loop that gives up on the dict when a dimension is missing from it.
DimensionScoreAllOrNothing(present, dim) ==
    IF present = Dimensions THEN FloatValue("number", 0) ELSE 0

\* One turn of the loop of _parse_evaluation_response over the evaluation
\* dimensions: 0.0 for a dimension that is not a key of the dict, float()
\* of its value otherwise.
DimensionScore(present, dim) ==
    IF dim \in present THEN FloatValue("number", 0) ELSE 0

\* The exception raised inside the try block of _parse_evaluation_response.
ParseException(reply) ==
    IF reply.text = "no_braces" THEN "ValueError"
    ELSE IF reply.text = "invalid_json" THEN "JSONDecodeError"
    ELSE IF FloatRaises(reply.overall_score) # "none" THEN FloatRaises(reply.overall_score)
    ELSE IF DimensionsRaise(reply.dimension_scores) # "none"
         THEN DimensionsRaise(reply.dimension_scores)
    ELSE FloatRaises(reply.confidence)

\* MTBenchEvaluator._parse_evaluation_response
parse_evaluation_response(reply) ==
    IF ParseException(reply) = "none"
    THEN [CreateDefaultEvaluation EXCEPT
            !.overall_score = FloatValue(reply.overall_score, 0),
            !.dimension_scores =
                CASE reply.dimensions = {} -> "zero"
                  [] reply.dimension_scores = "extra_string" -> "scores_and_string"
                  [] OTHER -> "scores",
            !.dimensions = [dim \in Dimensions |-> DimensionScore(reply.dimensions, dim)],
            !.confidence = FloatValue(reply.confidence, One \div 2),
            !.reasoning = CASE reply.reasoning = "null" -> "None"
                            [] OTHER -> "text"]
    ELSE IF ParseException(reply) \in {"JSONDecodeError", "ValueError", "KeyError"}
         THEN CreateDefaultEvaluation
    ELSE [CreateDefaultEvaluation EXCEPT !.raises = ParseException(reply)]

\* An except clause that lists the classes the parser lists.
OuterCatchesParseErrors(exception) ==
    exception \in {"JSONDecodeError", "ValueError", "KeyError"}

\* except Exception
OuterCatches(exception) == exception # "none"

\* MTBenchEvaluator.evaluate_single_response.  question and response are
\* "text" or "None"; slicing None raises TypeError.  The log lines after
\* parsing format every value of dimension_scores with :.3f and slice the
\* reasoning.
evaluate_single_response(question, response, reply) ==
    LET parsed == parse_evaluation_response(reply)
        exception ==
            IF question = "None" \/ response = "None" THEN "TypeError"
            ELSE IF reply.call = "raises" THEN "RuntimeError"
            ELSE IF parsed.raises # "none" THEN parsed.raises
            ELSE IF parsed.dimension_scores = "scores_and_string" THEN "ValueError"
            ELSE IF parsed.reasoning = "None" THEN "TypeError"
            ELSE "none"
    IN  IF exception = "none" THEN parsed
        ELSE IF OuterCatches(exception) THEN CreateDefaultEvaluation
        ELSE [CreateDefaultEvaluation EXCEPT !.raises = exception]

\* evaluate_single_response(question, response) with the judge LLM
\* answering the prompt with call.reply.
EvaluateSingleResponse ==
    /\ call.phase = "input"
    /\ call.op = "evaluate_single_response"
    /\ call' = [call EXCEPT
          !.phase = "returned",
          !.result = evaluate_single_response(call.question, call.response, call.reply)]
    /\ UNCHANGED <<session_id, current_session, current_multi_turn_session, sessions,
                   tasks, running, use_mt_bench, polled, single, judge>>

\* _parse_evaluation_response(response), called on the text call.reply.
ParseEvaluationResponse ==
    /\ call.phase = "input"
    /\ call.op = "parse_evaluation_response"
    /\ call' = [call EXCEPT
          !.phase = "returned",
          !.result = parse_evaluation_response(call.reply)]
    /\ UNCHANGED <<session_id, current_session, current_multi_turn_session, sessions,
                   tasks, running, use_mt_bench, polled, single, judge>>

(***************************************************************************)
(* BLEURTScorer, shared by the coroutines that evaluate with one JudgeAI.  *)
(* A coroutine ("score") awaits the judge LLM and then calls compute_score *)
(* from the event loop; its results are what the calls returned or that    *)
(* they raised.                                                            *)
(***************************************************************************)

\* BLEURTScorer.__init__.  loads / attempts: how many times
\* evaluate.load has returned / has been called.
NewScorer ==
    [phase |-> "scorer", op |-> "compute_score",
     scorer |-> "None", model_loaded |-> FALSE, loads |-> 0, attempts |-> 0]

\* A load that awaits the download: the loop is free while it lasts.
LoadSegmentAwaits(t) == 0

\* The coroutine that holds the event loop between the flag check of
\* compute_score and the end of _load_model: the calling coroutine, since
\* neither function is a coroutine function and neither contains an await.
LoadSegment(t) == t

\* compute_score up to `if not self._model_loaded:`, and the guard of
\* _load_model.
ScoreCheck(t) ==
    /\ tasks[t].kind = "score"
    /\ tasks[t].pc = "await"
    /\ Resumes(t)
    /\ Len(tasks[t].results) < MaxPairs
    /\ tasks' = [tasks EXCEPT
          ![t].pc = IF call.model_loaded THEN "compute" ELSE "load"]
    /\ running' = IF call.model_loaded THEN t ELSE LoadSegment(t)
    /\ UNCHANGED <<session_id, current_session, current_multi_turn_session, sessions,
                   use_mt_bench, polled, single, judge, call>>

\* The try block of _load_model: evaluate.load returns and the flag is
\* set, or it raises and the RuntimeError leaves compute_score.
ScoreLoad(t) ==
    /\ tasks[t].kind = "score"
    /\ tasks[t].pc = "load"
    /\ running = LoadSegment(t)
    /\ \/ /\ call' = [call EXCEPT
                !.scorer = "model", !.model_loaded = TRUE,
                !.loads = @ + 1, !.attempts = @ + 1]
          /\ tasks' = [tasks EXCEPT ![t].pc = "compute"]
          /\ running' = t
       \/ /\ call' = [call EXCEPT !.attempts = @ + 1]
          /\ tasks' = [tasks EXCEPT
                ![t].pc = "await", ![t].results = Append(@, [raises |-> TRUE, score |-> 0])]
          /\ running' = 0
    /\ UNCHANGED <<session_id, current_session, current_multi_turn_session, sessions,
                   use_mt_bench, polled, single, judge>>

\* The try block of compute_score: the normalized score, or 0.1 when
\* scoring raised.
ScoreCompute(t) ==
    /\ tasks[t].kind = "score"
    /\ tasks[t].pc = "compute"
    /\ Continues(t)
    /\ \E scorer \in {"compute_fails", "scores"} :
          tasks' = [tasks EXCEPT
              ![t].pc = "await",
              ![t].results = Append(@, [raises |-> FALSE, score |-> ScorerOutput(scorer)])]
    /\ running' = 0
    /\ UNCHANGED <<session_id, current_session, current_multi_turn_session, sessions,
                   use_mt_bench, polled, single, judge, call>>

(***************************************************************************)
(* The values the status getters hand to their caller.  A returned value   *)
(* is a dict of its own or the session dict itself, and a part of it (the  *)
(* status entry, the progress dict, the aggregate_metrics dict) is either  *)
(* a value of the returned dict alone or an object the session also holds. *)
(***************************************************************************)

SnapshotParts == {"status", "progress", "aggregate_metrics"}

\* The parts of session id, as a returned dict of its own stores them.
PartsOf(id) ==
    [status |-> sessions[id].status,
     progress |-> sessions[id].progress,
     aggregate_metrics |-> sessions[id].aggregate_metrics]

\* The dict under "aggregate_metrics" of a single-turn session: the empty
\* dict the start call created, until the completion writes store the dict
\* calculate_aggregate_metrics returned.
MetricsObject(id, ss) == IF ss[id].status = "completed" THEN "calculated" ELSE "initial"

\* The part of the returned value is an object the session holds too.
Shares(snapshot, part, ss) ==
    \/ snapshot.whole
    \/ part = "aggregate_metrics" /\ snapshot.metrics = MetricsObject(snapshot.of, ss)

\* What the caller reads in the value it holds.
View(snapshot, ss) ==
    [part \in SnapshotParts |->
        IF Shares(snapshot, part, ss) THEN ss[snapshot.of][part] ELSE snapshot.own[part]]

\* What the caller stores in a part of the value it holds.
Changed(part) ==
    CASE part = "status" -> "changed"
      [] part = "progress" -> [NoProgress EXCEPT !.current_step = "changed"]
      [] part = "aggregate_metrics" -> [NoMetrics EXCEPT !.evaluation_method = "changed"]

\* A request handler calls get_session_status and keeps what it returns:
\* a new dict, progress.copy(), and
\* status["aggregate_metrics"] = self.current_session["aggregate_metrics"].
HoldSessionStatus ==
    /\ running = 0
    /\ SessionStatus.outcome = "snapshot"
    /\ call' = [phase |-> "returned", op |-> "get_session_status",
                result |-> [of |-> current_session,
                            whole |-> FALSE,
                            metrics |-> MetricsObject(current_session, sessions),
                            own |-> PartsOf(current_session)]]
    /\ UNCHANGED <<session_id, current_session, current_multi_turn_session,
                   sessions, tasks, running, use_mt_bench, polled, single, judge>>

\* A request handler calls get_multi_turn_status and keeps what it returns:
\* self.current_multi_turn_session itself.
HoldMultiTurnStatus ==
    /\ running = 0
    /\ current_multi_turn_session # 0
    /\ call' = [phase |-> "returned", op |-> "get_multi_turn_status",
                result |-> [of |-> current_multi_turn_session,
                            whole |-> TRUE,
                            metrics |-> "session",
                            own |-> PartsOf(current_multi_turn_session)]]
    /\ UNCHANGED <<session_id, current_session, current_multi_turn_session,
                   sessions, tasks, running, use_mt_bench, polled, single, judge>>

\* The caller changes one part of the value it holds: a part the session
\* also holds changes in the session.
ChangeSnapshot ==
    /\ running = 0
    /\ call.phase = "returned"
    /\ call.op \in {"get_session_status", "get_multi_turn_status"}
    /\ \E part \in SnapshotParts :
        /\ View(call.result, sessions)[part] # Changed(part)
        /\ call' = [call EXCEPT !.result.own[part] = Changed(part)]
        /\ sessions' = IF Shares(call.result, part, sessions)
                       THEN [sessions EXCEPT ![call.result.of][part] = Changed(part)]
                       ELSE sessions
    /\ UNCHANGED <<session_id, current_session, current_multi_turn_session,
                   tasks, running, use_mt_bench, polled, single, judge>>

(***************************************************************************)
(* Specifications.                                                         *)
(***************************************************************************)

Tasks == 1..Len(tasks)

InitOrchestrator ==
    /\ session_id = 0
    /\ current_session = 0
    /\ current_multi_turn_session = 0
    /\ sessions = [id \in 1..MaxStarts |-> NoSession]
    /\ running = 0
    /\ use_mt_bench \in BOOLEAN
    /\ polled = NoPoll

Init ==
    /\ InitOrchestrator
    /\ judge = NoJudge
    /\ call = NoCall
    /\ tasks = <<>>
    /\ single = FALSE

\* One step of the background task t: the code between two awaits.
TaskStep(t) ==
    \/ Begin(t)
    \/ ParseReturn(t)
    \/ FireRaise(t)
    \/ FireCallback(t)
    \/ BotReturn(t)
    \/ FireReturn(t)
    \/ EvalReturn(t)
    \/ Metrics(t)
    \/ Raise(t)
    \/ BeginMultiTurn(t)
    \/ MultiTurnNext(t)
    \/ MultiTurnReturn(t)
    \/ MultiTurnFinish(t)

PipelineStep == \E t \in Tasks : TaskStep(t)

\* Any number of start calls and short-content requests, in any
\* interleaving with the background tasks.
Next ==
    \/ start_stress_test /\ UNCHANGED <<judge, call>>
    \/ start_content_analysis /\ UNCHANGED <<judge, call>>
    \/ start_multi_turn_test /\ UNCHANGED <<judge, call>>
    \/ analyze_content /\ UNCHANGED <<judge, call>>
    \/ PipelineStep /\ UNCHANGED <<judge, call>>
    \/ \E t \in Tasks : FireReturnToCaller(t) /\ UNCHANGED <<judge, call>>

Spec == Init /\ [][Next]_vars

\* Stress tests and multi-turn tests started one after the other, every
\* background task scheduled again and again until it ends: the event loop
\* runs its ready tasks in turn, and every awaited LLM or bot call returns
\* or raises.
NextLive ==
    \/ start_stress_test /\ UNCHANGED <<judge, call>>
    \/ start_multi_turn_test /\ UNCHANGED <<judge, call>>
    \/ PipelineStep /\ UNCHANGED <<judge, call>>

SpecLive ==
    /\ Init
    /\ [][NextLive]_vars
    /\ \A t \in 1..MaxStarts :
          WF_vars(t \in Tasks /\ TaskStep(t) /\ UNCHANGED <<judge, call>>)

\* One session started on a fresh orchestrator, polled by the status and
\* results handlers.
InitSolo ==
    /\ InitOrchestrator
    /\ judge = NoJudge
    /\ call = NoCall
    /\ tasks = <<>>
    /\ single = TRUE

NextSolo ==
    \/ start_stress_test /\ UNCHANGED <<judge, call>>
    \/ start_content_analysis /\ UNCHANGED <<judge, call>>
    \/ start_multi_turn_test /\ UNCHANGED <<judge, call>>
    \/ PipelineStep /\ UNCHANGED <<judge, call>>
    \/ get_session_status /\ UNCHANGED <<judge, call>>
    \/ get_detailed_results /\ UNCHANGED <<judge, call>>
    \/ get_multi_turn_results /\ UNCHANGED <<judge, call>>

SpecSolo == InitSolo /\ [][NextSolo]_vars

\* One session started on a fresh orchestrator; a request handler keeps the
\* value a status getter returned and changes parts of it.
NextSnapshot ==
    \/ NextSolo
    \/ HoldSessionStatus
    \/ HoldMultiTurnStatus
    \/ ChangeSnapshot

SpecSnapshot == InitSolo /\ [][NextSnapshot]_vars

\* fire_questions_sequentially called with a list of questions and a
\* callback that returns a result dict or raises.
InitFire ==
    /\ InitOrchestrator
    /\ judge = NoJudge
    /\ call = NoCall
    /\ single = FALSE
    /\ \E questions \in SeqsUpTo({"text"}, MaxPairs + 1) :
        tasks = <<[NewTask("call") EXCEPT !.pc = "fire", !.questions = questions]>>

NextFire ==
    \E t \in Tasks :
        \/ FireCallback(t) /\ UNCHANGED <<judge, call>>
        \/ BotReturn(t) /\ UNCHANGED <<judge, call>>
        \/ BotRaise(t) /\ UNCHANGED <<judge, call>>
        \/ FireReturnToCaller(t) /\ UNCHANGED <<judge, call>>

SpecFire == InitFire /\ [][NextFire]_vars

\* A JudgeAI of any strategy configuration, given any test results and QA
\* pairs, evaluates the batch and then computes the aggregate metrics twice.
InitJudge ==
    /\ InitOrchestrator
    /\ tasks = <<>>
    /\ single = FALSE
    /\ call = NoCall
    /\ \E bl \in BOOLEAN, scorer \in ScorerKinds, outcomes \in TestResultLists :
       \E qa_pairs \in SeqsUpTo(AnswerKinds, Len(outcomes)) :
          judge = [NoJudge EXCEPT
                      !.phase = "input",
                      !.use_bleurt = bl,
                      !.scorer = scorer,
                      !.test_results =
                          [i \in 1..Len(outcomes) |-> CallbackResult(i - 1, outcomes[i])],
                      !.qa_pairs = qa_pairs]

NextJudge ==
    \/ JudgeBatchEvaluate
    \/ JudgeCalculateMetrics

SpecJudge == InitJudge /\ [][NextJudge]_vars

\* A JudgeAI of any strategy configuration whose three entry points are
\* called: evaluate_response, batch_evaluate, calculate_aggregate_metrics.
InitStrategy ==
    /\ InitOrchestrator
    /\ tasks = <<>>
    /\ single = FALSE
    /\ \E answer \in AnswerKinds, reply \in JudgeReplies :
          call = [phase |-> "input", op |-> "evaluate_response",
                  answer |-> answer, reply |-> reply,
                  result |-> [strategy |-> "none", evaluation |-> NoEvaluation]]
    /\ \E bl \in BOOLEAN, scorer \in ScorerKinds, outcomes \in TestResultLists :
       \E qa_pairs \in SeqsUpTo(AnswerKinds, Len(outcomes)) :
          judge = [NoJudge EXCEPT
                      !.phase = "input",
                      !.use_bleurt = bl,
                      !.scorer = scorer,
                      !.test_results =
                          [i \in 1..Len(outcomes) |-> CallbackResult(i - 1, outcomes[i])],
                      !.qa_pairs = qa_pairs]

NextStrategy ==
    \/ JudgeEvaluateResponse
    \/ JudgeBatchEvaluate
    \/ JudgeCalculateMetrics

SpecStrategy == InitStrategy /\ [][NextStrategy]_vars

\* evaluate_single_response on any question, response and LLM outcome, or
\* _parse_evaluation_response on any text the LLM call returned.
InitRubric ==
    /\ InitOrchestrator
    /\ tasks = <<>>
    /\ single = FALSE
    /\ judge = NoJudge
    /\ \/ \E question \in {"text", "None"}, response \in {"text", "None"},
             reply \in RubricReplies :
             call = [phase |-> "input", op |-> "evaluate_single_response",
                     question |-> question, response |-> response, reply |-> reply,
                     result |-> CreateDefaultEvaluation]
       \/ \E reply \in RubricReplies :
             /\ reply.call = "returns"
             /\ call = [phase |-> "input", op |-> "parse_evaluation_response",
                        question |-> "text", response |-> "text", reply |-> reply,
                        result |-> CreateDefaultEvaluation]

NextRubric ==
    \/ EvaluateSingleResponse
    \/ ParseEvaluationResponse

SpecRubric == InitRubric /\ [][NextRubric]_vars

\* Coroutines that share one newly constructed BLEURTScorer and call
\* compute_score on it.
InitScorer ==
    /\ InitOrchestrator
    /\ judge = NoJudge
    /\ single = FALSE
    /\ call = NewScorer
    /\ \E n \in 1..MaxStarts :
          tasks = [t \in 1..n |-> [NewTask("score") EXCEPT !.pc = "await"]]

NextScorer ==
    \E t \in Tasks :
        \/ ScoreCheck(t)
        \/ ScoreLoad(t)
        \/ ScoreCompute(t)

SpecScorer == InitScorer /\ [][NextScorer]_vars

(***************************************************************************)
(* Properties.                                                             *)
(***************************************************************************)

SingleTurn(id) == sessions[id].kind \in {"stress", "content"}

Sessions == DOMAIN sessions

ListsAligned(id) ==
    /\ Len(sessions[id].test_results) = Len(sessions[id].evaluated_results)
    /\ Len(sessions[id].evaluated_results) = Len(sessions[id].questions)

\* C1: in every state where the status of a single-turn session is
\* calculating_metrics or completed, its test_results, evaluated_results
\* and questions have the same length.
C1_AlignedAfterEvaluation ==
    \A id \in Sessions :
        (SingleTurn(id) /\ sessions[id].status \in {"calculating_metrics", "completed"})
            => ListsAligned(id)

\* C2: in every state where the status of a single-turn session is
\* evaluating_responses, calculating_metrics or completed, its
\* test_results, evaluated_results and questions have the same length.
C2_AlignedFromEvaluating ==
    \A id \in Sessions :
        (SingleTurn(id) /\ sessions[id].status \in
            {"evaluating_responses", "calculating_metrics", "completed"})
            => ListsAligned(id)

\* Position of a status in the order parsing -> testing_responses ->
\* evaluating_responses -> calculating_metrics -> completed.
Rank(status) ==
    CASE status \in {"parsing_transcript", "parsing_content"} -> 1
      [] status = "testing_responses" -> 2
      [] status = "evaluating_responses" -> 3
      [] status = "calculating_metrics" -> 4
      [] status = "completed" -> 5
      [] OTHER -> 0

\* C3: every change of the status of a single-turn session either goes to
\* failed or goes to a status that is not earlier in the order, and reaches
\* completed only from calculating_metrics.
C3_StatusOrder ==
    [][\A id \in Sessions :
        LET a == sessions[id].status
            b == sessions'[id].status
        IN (SingleTurn(id) /\ Rank(a) > 0 /\ b # a /\ b # "none")
            => \/ b = "failed"
               \/ /\ Rank(b) >= Rank(a)
                  /\ b = "completed" => a = "calculating_metrics"]_vars

\* C4: once the status of a single-turn session is completed or failed it
\* never changes again.
C4_Terminal ==
    [][\A id \in Sessions :
        (SingleTurn(id) /\ sessions[id].status \in {"completed", "failed"}
                        /\ sessions'[id].kind # "none")
            => sessions'[id].status = sessions[id].status]_vars

\* The fields of a session a poller reads.
Tracked(session) ==
    <<session.status, session.error, session.end_time, session.progress>>

\* C5: a step of a coroutine other than the task launched for the session
\* in the slot leaves the status, error, end_time and progress of that
\* session unchanged.  Every start call creates one session and one
\* background task, so the task launched for session id is the id-th task
\* of a pipeline kind.
C5_OnlyOwnerWrites ==
    [][\A t \in Tasks :
        (/\ current_session # 0
         /\ current_session' = current_session
         /\ tasks'[t] # tasks[t]
         /\ t # (CHOOSE o \in Tasks :
                   /\ tasks[o].kind \in {"stress", "content", "multi"}
                   /\ Cardinality({u \in 1..o :
                         tasks[u].kind \in {"stress", "content", "multi"}})
                        = current_session))
            => Tracked(sessions'[current_session]) = Tracked(sessions[current_session])]_vars

\* The session a status or results query of the given kind answers from.
Current(kind, cur, curmt, ss) ==
    IF kind = "multi" THEN curmt
    ELSE IF cur # 0 /\ ss[cur].kind = kind THEN cur
    ELSE 0

\* C6: a start call of one kind leaves the current session of each other
\* kind in place and unchanged.
C6_SlotsIndependent ==
    [][\A kind \in {"stress", "content", "multi"} :
        LET before == Current(kind, current_session, current_multi_turn_session, sessions)
        IN (/\ session_id' = session_id + 1
            /\ sessions'[session_id'].kind # kind
            /\ before # 0)
            => /\ Current(kind, current_session', current_multi_turn_session',
                          sessions') = before
               /\ sessions'[before] = sessions[before]]_vars

\* C7: when the except handler of a pipeline has marked the session in the
\* slot failed, get_session_status and get_detailed_results return a
\* snapshot with status failed and the error.
C7_FailedSessionPollable ==
    (/\ current_session # 0
     /\ sessions[current_session].status = "failed"
     /\ sessions[current_session].error = "exception")
        => /\ SessionStatus.outcome = "snapshot"
           /\ DetailedResults.outcome = "snapshot"
           /\ DetailedResults.error = "exception"

\* C8: in a run that starts one session, when the extraction returns no
\* pair the task ends and its session is failed with the error message;
\* the session then holds no question, no test result and no evaluation,
\* no callback has counted a question, and get_detailed_results returns a
\* snapshot with the error message.
C8_ZeroPairs ==
    /\ [][\A t \in Tasks :
            (/\ Pipeline(t)
             /\ tasks[t].pc = "parse"
             /\ tasks'[t].pc # "parse"
             /\ sessions'[tasks[t].sess].qa_pairs = <<>>)
                => /\ tasks'[t].pc = "done"
                   /\ sessions'[tasks[t].sess].status = "failed"
                   /\ sessions'[tasks[t].sess].error = "no_pairs"]_vars
    /\ [](\A id \in Sessions :
            (SingleTurn(id) /\ sessions[id].error = "no_pairs")
                => /\ sessions[id].status = "failed"
                   /\ sessions[id].questions = <<>>
                   /\ sessions[id].test_results = <<>>
                   /\ sessions[id].evaluated_results = <<>>
                   /\ sessions[id].progress.questions_completed = 0
                   /\ sessions[id].progress.evaluations_completed = 0
                   /\ \A t \in Tasks : tasks[t].pc = "done"
                   /\ id = current_session
                   /\ DetailedResults.outcome = "snapshot"
                   /\ DetailedResults.status = "failed"
                   /\ DetailedResults.error = "no_pairs")

\* A results call answered with the snapshot of a session that failed
\* because the extraction returned no pair.
C8_Witness ==
    /\ polled = [op |-> "get_detailed_results", outcome |-> "snapshot",
                 status |-> "failed", error |-> "no_pairs"]
    /\ current_session # 0
    /\ sessions[current_session].qa_pairs = <<>>
    /\ tasks[1].pc = "done"

\* C9: when fire_questions_sequentially has returned, there is one result
\* per question, in question order, and every result of a failed
\* invocation has status "error" and bot_response None.
C9_FireResults ==
    \A t \in Tasks :
        (tasks[t].kind = "call" /\ tasks[t].pc = "done")
            => /\ Len(tasks[t].results) = Len(tasks[t].questions)
               /\ \A i \in 1..Len(tasks[t].results) :
                    /\ tasks[t].results[i].question_index = i - 1
                    /\ tasks[t].results[i].error # "absent"
                        => /\ tasks[t].results[i].status = "error"
                           /\ tasks[t].results[i].bot_response = "None"

\* C10: a completed single-turn session with n test results of which k
\* come from bot calls that raised has aggregate_metrics.successful_responses
\* equal to n - k.
C10_SuccessfulResponses ==
    \A id \in Sessions :
        (SingleTurn(id) /\ sessions[id].status = "completed")
            => /\ "successful_responses" \in sessions[id].aggregate_metrics.keys
               /\ sessions[id].aggregate_metrics.successful_responses =
                    Len(sessions[id].test_results)
                      - Cardinality({i \in 1..Len(sessions[id].test_results) :
                                        sessions[id].test_results[i].status = "error"})


(***************************************************************************)
(* Properties of JudgeAI.                                                  *)
(***************************************************************************)

Evaluated == judge.phase = "evaluated"

Results == 1..Len(judge.evaluated_results)

EvaluationOf(i) == judge.evaluated_results[i].evaluation

\* C11: when rubric evaluation is enabled and the rubric evaluator's LLM
\* call raises on every item, batch_evaluate returns one result per test
\* result and every one of them has evaluation_method "legacy".
C11_RubricFailureGivesLegacy ==
    (Evaluated /\ use_mt_bench /\ \A i \in Results : judge.replies[i].kind = "raises")
        => /\ Len(judge.evaluated_results) = Len(judge.test_results)
           /\ \A i \in Results : EvaluationOf(i).evaluation_method = "legacy"

\* Test result i is errored or has no QA pair at its index.
Skipped(i) == judge.test_results[i].status = "error" \/ i > Len(judge.qa_pairs)

\* A default zero evaluation with an error text.
IsDefaultZero(evaluation) ==
    /\ evaluation.overall_score = 0
    /\ evaluation.evaluation_method = "legacy"
    /\ evaluation.error \notin {"absent", "empty"}

\* C12: batch_evaluate is an index-preserving merge: output position i
\* holds test result i; an entry that is errored or has no QA pair at its
\* index carries a default zero evaluation with an error text; every other
\* entry carries the evaluation computed from its own bot_response.
\* Stated for the calls in which the semantic scorer, if called, returned;
\* in semantic-only mode an entry whose pair has no reference answer is not
\* scored.
C12_IndexPreservingMerge ==
    (Evaluated /\ judge.scorer_call # "raised") =>
        /\ Len(judge.evaluated_results) = Len(judge.test_results)
        /\ \A i \in Results :
            /\ judge.evaluated_results[i].res = judge.test_results[i]
            /\ Skipped(i) => IsDefaultZero(EvaluationOf(i))
            /\ (/\ ~Skipped(i)
                /\ ~(~use_mt_bench /\ judge.use_bleurt /\ judge.qa_pairs[i] # "text"))
                  => EvaluationOf(i).response_of = i

\* The overall score the rubric evaluator gave test result i.
RubricOverall(i) ==
    IF judge.replies[i].kind = "raises" THEN 0 ELSE judge.replies[i].overall_score

\* The rubric batch succeeded and the semantic scorer it called returned.
FusionRan ==
    /\ Evaluated /\ use_mt_bench /\ judge.use_bleurt
    /\ ~RubricBatchRaises(judge.test_results, judge.qa_pairs)
    /\ judge.scorer_call = "returned"

\* clamp((s + 2) / 4, 0, 1)
Normalized(s) ==
    LET n == (s + 2 * One) \div 4
    IN  IF n < 0 THEN 0 ELSE IF n > One THEN One ELSE n

\* C13: when fusion applies (the rubric evaluation succeeded, semantic
\* scoring is enabled, the reference answer is not empty) the stored
\* overall_score is 0.7 * rubric_overall + 0.3 * clamp((s + 2) / 4, 0, 1),
\* the unfused rubric overall is stored unchanged next to it, and the
\* stored semantic score is the scorer's output s, not the normalized value.
C13_Fusion ==
    \A i \in Results :
        /\ (/\ FusionRan
            /\ i \in ValidIndices(judge.test_results, judge.qa_pairs)
            /\ judge.qa_pairs[i] = "text")
              => EvaluationOf(i).evaluation_method = "mt_bench_with_bleurt"
        /\ (Evaluated /\ EvaluationOf(i).evaluation_method = "mt_bench_with_bleurt")
              => /\ {"original_mt_bench_score", "bleurt_score"} \subseteq EvaluationOf(i).keys
                 /\ EvaluationOf(i).original_mt_bench_score = RubricOverall(i)
                 /\ EvaluationOf(i).bleurt_score = ScorerOutput(judge.scorer)
                 /\ EvaluationOf(i).bleurt_of = i
                 /\ 10 * EvaluationOf(i).overall_score
                        = 7 * RubricOverall(i) + 3 * Normalized(ScorerOutput(judge.scorer))

\* A rubric evaluation was fused with a semantic score and the fusion
\* changed its overall_score.
C13_Witness ==
    /\ FusionRan
    /\ \E i \in Results :
        /\ EvaluationOf(i).evaluation_method = "mt_bench_with_bleurt"
        /\ judge.replies[i].kind = "json"
        /\ EvaluationOf(i).overall_score # EvaluationOf(i).original_mt_bench_score
        /\ EvaluationOf(i).bleurt_score # Normalized(EvaluationOf(i).bleurt_score)

\* Test result i has a QA pair with a reference answer.
HasReference(i) == i <= Len(judge.qa_pairs) /\ judge.qa_pairs[i] = "text"

\* C14: fusion happens only when the rubric evaluation succeeded for the
\* item, semantic scoring is enabled and a reference answer exists: no
\* evaluation made by the legacy evaluator (the rubric-to-legacy fallback
\* included) and no evaluation of an item without a reference answer has
\* an overall_score changed by a semantic score.
C14_FusionOnlyForRubric ==
    Evaluated =>
        \A i \in Results :
            (EvaluationOf(i).evaluation_method = "legacy" \/ ~HasReference(i))
                => /\ "bleurt_score" \notin EvaluationOf(i).keys
                   /\ EvaluationOf(i).overall_score = RubricOverall(i)

\* C15: every evaluation whose method is rubric (mt_bench), fusion
\* (mt_bench_with_bleurt) or legacy has an overall_score within [0, 1],
\* for every number the judge LLM can return and every semantic score.
C15_OverallScoreInRange ==
    Evaluated =>
        \A i \in Results :
            EvaluationOf(i).evaluation_method \in {"mt_bench", "mt_bench_with_bleurt", "legacy"}
                => (0 <= EvaluationOf(i).overall_score /\ EvaluationOf(i).overall_score <= One)

\* calculate_aggregate_metrics has been called and returned a dict.
MetricsReturned == Len(judge.metrics) > 0 /\ ~judge.metrics[1].raises

\* C16: under every strategy configuration the pass_rate is the number of
\* aggregated evaluations whose stored overall_score is >= 0.7 divided by
\* the number of aggregated evaluations.
C16_PassRate ==
    MetricsReturned =>
        judge.metrics[1].passing
            = Cardinality({i \in judge.metrics[1].aggregated :
                              EvaluationOf(i).overall_score >= PassMark})

\* C17: aggregate computation never raises: for every list of evaluated
\* results the evaluation stage can produce, calculate_aggregate_metrics
\* returns a metrics object, and on an empty filtered set the counts and
\* averages of that object are zero.
C17_MetricsNeverRaise ==
    Len(judge.metrics) > 0 =>
        /\ ~judge.metrics[1].raises
        /\ ValidResults(judge.evaluated_results) = {}
              => /\ judge.metrics[1].aggregated = {}
                 /\ judge.metrics[1].passing = 0
                 /\ judge.metrics[1].successful_responses = 0
                 /\ judge.metrics[1].total_evaluations = 0

NoReference(i) == ~HasError(judge.test_results[i]) /\ ~HasReference(i)

\* C19: in semantic-only mode an item without a reference answer gets a
\* default zero evaluation with a "no expected answer" marker, is excluded
\* from the semantic-specific aggregate averages, and still counts toward
\* total_questions.
C19_NoReferenceAnswer ==
    (~use_mt_bench /\ judge.use_bleurt) =>
        /\ Evaluated =>
              \A i \in Results :
                  (NoReference(i) /\ judge.test_results[i].error = "absent")
                      => /\ IsDefaultZero(EvaluationOf(i))
                         /\ EvaluationOf(i).error = "No expected answer"
        /\ MetricsReturned =>
              /\ judge.metrics[1].total_questions = Len(judge.evaluated_results)
              /\ \A i \in Results : NoReference(i) => i \notin judge.metrics[1].aggregated

\* C20: on a model-load failure or a scoring failure the semantic scorer
\* returns the sentinel 0.1 per pair instead of raising, and the evaluation
\* of the item goes on with the sentinel as its semantic score.
C20_ScorerFailureGivesSentinel ==
    (Evaluated /\ judge.scorer \in {"load_fails", "compute_fails"})
        => /\ judge.scorer_call # "raised"
           /\ judge.scorer_call = "returned"
                 => \E i \in Results :
                       /\ "bleurt_score" \in EvaluationOf(i).keys
                       /\ EvaluationOf(i).bleurt_score = Sentinel

(***************************************************************************)
(* Properties of MTBenchEvaluator.                                         *)
(***************************************************************************)

\* C21: the rubric judge never propagates an exception: for every LLM
\* outcome evaluate_single_response returns an evaluation, and on a call or
\* parse failure that evaluation has overall_score 0, every dimension score
\* 0, confidence 0 and the error text in its reasoning.  A failure: the
\* LLM call raised, or the text has no JSON object, or the JSON is invalid,
\* or a score value of the JSON is not numeric.
C21_RubricJudgeNeverRaises ==
    LET CallOrParseFailure ==
            \/ call.reply.call = "raises"
            \/ call.reply.text \in {"no_braces", "invalid_json"}
            \/ call.reply.overall_score \in {"string", "null"}
            \/ call.reply.confidence \in {"string", "null"}
            \/ call.reply.dimension_scores \in {"string", "null", "list"}
    IN  (call.phase = "returned" /\ call.op = "evaluate_single_response")
            => /\ call.result.raises = "none"
               /\ CallOrParseFailure
                     => /\ call.result.overall_score = 0
                        /\ call.result.dimension_scores = "zero"
                        /\ call.result.confidence = 0
                        /\ call.result.reasoning = "error"

\* The judge LLM returned a JSON object with a null score, which float()
\* rejects with a TypeError the parser does not catch, and
\* evaluate_single_response returned.
C21_Witness ==
    /\ call.phase = "returned"
    /\ call.op = "evaluate_single_response"
    /\ call.question = "text" /\ call.response = "text"
    /\ call.reply.text = "json"
    /\ call.reply.overall_score = "null"
    /\ call.result.reasoning = "error"

(***************************************************************************)
(* Properties of the getters and the start calls of the orchestrator.      *)
(***************************************************************************)

\* C22: get_detailed_results returns None when there is no session or its
\* status is neither completed nor failed, and returns the snapshot (with
\* the QA pairs, the evaluations and the aggregate metrics) whenever the
\* status is completed or failed.
C22_DetailedResultsByStatus ==
    /\ (\/ current_session = 0
        \/ sessions[current_session].status \notin {"completed", "failed"})
          => DetailedResults.outcome = "None"
    /\ (/\ current_session # 0
        /\ sessions[current_session].status \in {"completed", "failed"})
          => /\ DetailedResults.outcome = "snapshot"
             /\ DetailedResults.status = sessions[current_session].status

\* C23: a status snapshot is a defensive copy: a change the caller makes
\* to any part of the returned value leaves every session as it was, and
\* a step of the orchestrator leaves what the caller reads in a value
\* already returned as it was.
C23_SnapshotIsDefensiveCopy ==
    [][/\ ChangeSnapshot => sessions' = sessions
       /\ (/\ call.phase = "returned"
           /\ call.op \in {"get_session_status", "get_multi_turn_status"}
           /\ call' = call
           /\ ~ChangeSnapshot)
            => View(call.result, sessions') = View(call.result, sessions)]_vars

\* A start call (only the start calls advance self.session_id) returns
\* "started" with an id above every id in use, and the slot of its kind
\* holds the session with that id, with empty lists.
StartsFreshLists ==
    /\ StartReturn(session_id').status = "started"
    /\ StartReturn(session_id').session_id > session_id
    /\ \A id \in DOMAIN sessions :
          sessions[id] # NoSession => id < StartReturn(session_id').session_id
    /\ \A t \in Tasks : tasks[t].sess < StartReturn(session_id').session_id
    /\ StartReturn(session_id').session_id =
          IF sessions'[session_id'].kind = "multi" THEN current_multi_turn_session'
          ELSE current_session'
    /\ LET session == sessions'[session_id']
       IN /\ session.kind \in {"stress", "content", "multi"}
          /\ session.status \in {"parsing_transcript", "parsing_content", "processing"}
          /\ session.qa_pairs = <<>>
          /\ session.questions = <<>>
          /\ session.test_results = <<>>
          /\ session.evaluated_results = <<>>
          /\ session.responses = <<>>
          /\ session.aggregate_metrics = NoMetrics
          /\ session.error = "absent"
          /\ ~session.end_time
          /\ session.progress.questions_total = 0
          /\ session.progress.questions_completed = 0
          /\ session.progress.evaluations_completed = 0
          /\ session.progress.processed_messages = 0

\* C24: every start call returns "started" with a session id greater than
\* every earlier id, and at the return the slot holds a fresh session with
\* that id, empty result lists and every progress counter at zero, except
\* that total_messages of a multi-turn session is the number of messages
\* passed to the call.
C24_StartsFresh ==
    [][session_id' # session_id => /\ StartsFreshLists
                 /\ sessions'[session_id'].progress.total_messages =
                        Len(sessions'[session_id'].messages)]_vars

\* C24 as stated: every progress counter of the fresh session is zero.
C24_StartsFreshAllCountersZero ==
    [][session_id' # session_id => /\ StartsFreshLists
                 /\ sessions'[session_id'].progress.total_messages = 0]_vars

\* A second start has just returned: a multi-turn session with messages
\* is in its slot and its pipeline has not run yet.
C24_Witness ==
    /\ session_id = 2
    /\ current_multi_turn_session = 2
    /\ current_session = 1
    /\ sessions[2].progress.total_messages = 2
    /\ sessions[2].progress.processed_messages = 0
    /\ Len(tasks) = 2
    /\ tasks[2].pc = "init"

(***************************************************************************)
(* Properties of the strategy selection of JudgeAI.                        *)
(***************************************************************************)

\* C25: the strategy is a fixed function of use_mt_bench and use_bleurt
\* (rubric if use_mt_bench, else semantic-only if use_bleurt, else legacy),
\* and evaluate_response, batch_evaluate and calculate_aggregate_metrics
\* select by it on every call; only the evaluators of the selected
\* strategy produce the evaluations.
C25_StrategySelection ==
    LET SelectedByRule(strategy) ==
            /\ use_mt_bench => strategy = "rubric"
            /\ (judge.use_bleurt /\ ~use_mt_bench) => strategy = "semantic"
            /\ (~judge.use_bleurt /\ ~use_mt_bench) => strategy = "legacy"
        MethodsOf(strategy) ==
            CASE strategy = "rubric" -> {"mt_bench", "mt_bench_with_bleurt", "legacy"}
              [] strategy = "semantic" -> {"bleurt_only", "legacy"}
              [] strategy = "legacy" -> {"legacy"}
    IN  /\ (call.phase = "returned" /\ call.op = "evaluate_response")
              => /\ SelectedByRule(call.result.strategy)
                 /\ call.result.evaluation.evaluation_method
                        \in MethodsOf(call.result.strategy)
        /\ judge.phase = "evaluated"
              => /\ SelectedByRule(judge.batch_strategy)
                 /\ \A i \in 1..Len(judge.evaluated_results) :
                        judge.evaluated_results[i].evaluation.evaluation_method
                            \in MethodsOf(judge.batch_strategy)
        /\ judge.metrics # <<>> => SelectedByRule(judge.metrics_strategy)

\* All three entry points have been called on a JudgeAI with both flags
\* set, and the rubric strategy evaluated the response and the batch.
C25_Witness ==
    /\ use_mt_bench
    /\ judge.use_bleurt
    /\ call.phase = "returned"
    /\ call.op = "evaluate_response"
    /\ call.result.strategy = "rubric"
    /\ judge.phase = "evaluated"
    /\ judge.batch_strategy = "rubric"
    /\ Len(judge.metrics) = 2
    /\ judge.metrics_strategy = "rubric"
    /\ \E i \in 1..Len(judge.evaluated_results) :
          judge.evaluated_results[i].evaluation.evaluation_method = "mt_bench_with_bleurt"

(***************************************************************************)
(* Properties of the items of a batch.                                     *)
(***************************************************************************)

\* C26: in a rubric batch an item whose own rubric evaluation succeeded
\* (the bot answered with a text, the item has a QA pair and the judge
\* LLM's reply parses)
\* keeps a rubric evaluation_method and its own rubric score, whatever
\* happens to the other items of the batch.
C26_ItemFailuresAreLocal ==
    (Evaluated /\ use_mt_bench)
        => \A i \in Results :
            (/\ i \in ValidIndices(judge.test_results, judge.qa_pairs)
             /\ judge.test_results[i].bot_response = "text"
             /\ judge.replies[i].kind = "json")
                => /\ EvaluationOf(i).evaluation_method
                        \in {"mt_bench", "mt_bench_with_bleurt"}
                   /\ EvaluationOf(i).response_of = i
                   /\ IF EvaluationOf(i).evaluation_method = "mt_bench"
                      THEN EvaluationOf(i).overall_score = judge.replies[i].overall_score
                      ELSE EvaluationOf(i).original_mt_bench_score =
                                judge.replies[i].overall_score

\* C27: get_multi_turn_results returns None while there is no multi-turn
\* session or it is still processing, and returns the session snapshot,
\* with the error message, whenever its status is completed or failed.
C27_MultiTurnResultsByStatus ==
    /\ (\/ current_multi_turn_session = 0
        \/ sessions[current_multi_turn_session].status = "processing")
          => MultiTurnResults.outcome = "None"
    /\ (/\ current_multi_turn_session # 0
        /\ sessions[current_multi_turn_session].status \in {"completed", "failed"})
          => /\ MultiTurnResults.outcome = "snapshot"
             /\ MultiTurnResults.status = sessions[current_multi_turn_session].status
             /\ MultiTurnResults.error = sessions[current_multi_turn_session].error

(***************************************************************************)
(* Progress of the background pipelines.                                   *)
(***************************************************************************)

\* C28: when every task is scheduled fairly and every LLM and bot call
\* returns or raises, the session dict every start call created eventually
\* has status completed or failed, also when a later start of the same slot
\* supersedes it.  While session_id = id the start call of session id is
\* the latest one and the dict it created is in its slot.
C28_EverySessionEnds ==
    \A id \in 1..MaxStarts :
        (session_id = id) ~> (sessions[id].status \in {"completed", "failed"})

(***************************************************************************)
(* Properties of TesterAI.fire_questions_sequentially.                     *)
(***************************************************************************)

\* C29: within one call of fire_questions_sequentially on a list of
\* strings the callback is invoked once per question in increasing index
\* order, an invocation starts only when every earlier one has returned or
\* raised (at most one is in flight), the result at position p has
\* question_index p, and when the call returns every question has been
\* passed to the callback exactly once.
C29_SequentialInvocations ==
    \A t \in Tasks :
        LET InFlight(u) == Len(tasks[u].invoked) - Len(tasks[u].results)
        IN
        tasks[t].kind = "call"
            => /\ \A k \in 1..Len(tasks[t].invoked) : tasks[t].invoked[k] = k - 1
               /\ Len(tasks[t].invoked) <= Len(tasks[t].questions)
               /\ InFlight(t) \in {0, 1}
               /\ InFlight(t) = 1 <=> tasks[t].pc = "bot"
               /\ \A p \in 1..Len(tasks[t].results) :
                     tasks[t].results[p].question_index = p - 1
               /\ tasks[t].pc = "done"
                     => /\ Len(tasks[t].invoked) = Len(tasks[t].questions)
                        /\ Len(tasks[t].results) = Len(tasks[t].questions)

\* A call on three questions has returned; the callback raised for one of
\* them and returned for another.
C29_Witness ==
    \E t \in Tasks :
        /\ tasks[t].kind = "call"
        /\ tasks[t].pc = "done"
        /\ Len(tasks[t].questions) = MaxPairs + 1
        /\ tasks[t].invoked = [k \in 1..(MaxPairs + 1) |-> k - 1]
        /\ \E p, q \in 1..Len(tasks[t].results) :
              /\ tasks[t].results[p].status = "absent"
              /\ tasks[t].results[q].status = "success"

\* C30: in batch_evaluate every evaluated entry is scored against its own
\* ground truth: the expected answer handed to the evaluator for test
\* result i is the answer of QA pair i, the one recorded on the result, for
\* every pattern of errored entries before i.
C30_OwnGroundTruth ==
    Evaluated
        => \A i \in Results :
            EvaluationOf(i).answer_of # 0 => EvaluationOf(i).answer_of = i

(***************************************************************************)
(* Properties of the aggregate metrics.                                    *)
(***************************************************************************)

\* C31: calculate_aggregate_metrics aggregates exactly the entries without
\* a top-level error and with an evaluation: the number of aggregated
\* evaluations it reports (total_evaluations of the rubric metrics,
\* successful_responses of the other two) is the size of that set, and
\* avg_overall_score is the mean of the stored overall_score over that set,
\* under every strategy configuration.
C31_AggregatesValidResults ==
    LET metrics == judge.metrics[1]
        valid_results == ValidResults(judge.evaluated_results)
        reported == IF "total_evaluations" \in metrics.keys
                    THEN metrics.total_evaluations
                    ELSE metrics.successful_responses
        RECURSIVE Sum(_, _)
        Sum(f, S) == IF S = {} THEN 0
                     ELSE LET i == CHOOSE j \in S : TRUE
                          IN  f[i] + Sum(f, S \ {i})
        stored == [i \in valid_results |-> EvaluationOf(i).overall_score]
    IN  MetricsReturned =>
            /\ metrics.aggregated = valid_results
            /\ reported = Cardinality(valid_results)
            /\ Sum(metrics.overall_scores, metrics.aggregated) * Cardinality(valid_results)
                 = Sum(stored, valid_results) * Cardinality(metrics.aggregated)

\* C32: the score_distribution histogram is a partition: every aggregated
\* overall_score is counted in exactly one of the four buckets
\* (excellent >= 0.9, good in [0.7, 0.9), fair in [0.5, 0.7), poor < 0.5),
\* so the four counts sum to the number of aggregated evaluations, and
\* excellent + good is the number of passing evaluations of the pass_rate.
C32_HistogramIsPartition ==
    LET metrics == judge.metrics[1]
        score_distribution == metrics.score_distribution
        scores == metrics.overall_scores
        Bucket(s) == {b \in {"excellent", "good", "fair", "poor"} :
                        \/ b = "excellent" /\ 10 * s >= 9 * One
                        \/ b = "good" /\ 10 * s >= 7 * One /\ 10 * s < 9 * One
                        \/ b = "fair" /\ 10 * s >= 5 * One /\ 10 * s < 7 * One
                        \/ b = "poor" /\ 10 * s < 5 * One}
    IN  (MetricsReturned /\ "score_distribution" \in metrics.keys) =>
            /\ \A b \in {"excellent", "good", "fair", "poor"} :
                  score_distribution[b]
                      = Cardinality({i \in metrics.aggregated : Bucket(scores[i]) = {b}})
            /\ score_distribution.excellent + score_distribution.good
                 + score_distribution.fair + score_distribution.poor
                 = Cardinality(metrics.aggregated)
            /\ score_distribution.excellent + score_distribution.good = metrics.passing

\* The metrics of a list whose aggregated scores fall into two buckets, one
\* of them a score of exactly 0.7, have been computed.
C32_Witness ==
    /\ MetricsReturned
    /\ "score_distribution" \in judge.metrics[1].keys
    /\ \E i, j \in judge.metrics[1].aggregated :
          /\ judge.metrics[1].overall_scores[i] = PassMark
          /\ judge.metrics[1].overall_scores[j] < One \div 2
    /\ judge.metrics[1].score_distribution.good >= 1
    /\ judge.metrics[1].score_distribution.poor >= 1

(***************************************************************************)
(* Properties of MTBenchEvaluator._parse_evaluation_response.              *)
(***************************************************************************)

\* C33: rubric parsing fills defaults per dimension: for every JSON object
\* whose score values are numeric and every subset of the five rubric
\* dimensions missing from it, the parser gives each missing dimension the
\* score 0.0, keeps the JSON's value of each present dimension and of the
\* overall score, and does not return the zeroed failure evaluation.
C33_MissingDimensionsDefault ==
    LET reply == call.reply
        Numeric == {"number", "numeric_string"}
        JsonValue == FloatValue("number", 0)
    IN  (/\ call.phase = "returned"
         /\ call.op = "parse_evaluation_response"
         /\ reply.text = "json"
         /\ reply.overall_score \in Numeric
         /\ reply.confidence \in Numeric \cup {"missing"}
         /\ reply.dimension_scores \in {"missing", "numbers"})
            => /\ call.result.raises = "none"
               /\ \A dim \in Dimensions \ reply.dimensions :
                     call.result.dimensions[dim] = 0
               /\ \A dim \in reply.dimensions :
                     call.result.dimensions[dim] = JsonValue
               /\ call.result.overall_score = JsonValue
               /\ call.result # CreateDefaultEvaluation
               /\ call.result.reasoning # "error"

\* The parser has returned for a JSON object that holds three of the five
\* dimensions.
C33_Witness ==
    /\ call.phase = "returned"
    /\ call.op = "parse_evaluation_response"
    /\ call.reply.text = "json"
    /\ call.reply.overall_score = "number"
    /\ call.reply.dimension_scores = "numbers"
    /\ call.reply.dimensions = {"relevance", "clarity", "depth"}
    /\ call.result.dimensions["accuracy"] = 0
    /\ call.result.dimensions["depth"] > 0

(***************************************************************************)
(* Properties of BLEURTScorer.                                             *)
(***************************************************************************)

\* C34: the semantic model is loaded lazily and at most once: a newly
\* constructed scorer has loaded nothing; a scoring call that finds the
\* flag unset loads the model before it scores; once a load has succeeded
\* no call loads again; and no two coroutines are both between the flag
\* check and the end of the load, so the model is never loaded twice.
C34_LoadedLazilyAtMostOnce ==
    /\ [](call.loads <= 1)
    /\ []((\A t \in Tasks : tasks[t].pc = "await" /\ tasks[t].results = <<>>)
            => (call.attempts = 0 /\ ~call.model_loaded /\ call.scorer = "None"))
    /\ [](\A t \in Tasks :
            (\/ tasks[t].pc = "compute"
             \/ \E i \in 1..Len(tasks[t].results) : ~tasks[t].results[i].raises)
                => (call.model_loaded /\ call.scorer = "model" /\ call.loads = 1))
    /\ [][call.model_loaded
            => (call'.loads = call.loads /\ call'.attempts = call.attempts)]_vars
    /\ [](Cardinality({t \in Tasks : tasks[t].pc = "load"}) <= 1)
    /\ [](call.model_loaded <=> call.loads = 1)

\* Two coroutines have both scored with the one model, after a first load
\* that failed.
C34_Witness ==
    /\ call.phase = "scorer"
    /\ call.loads = 1
    /\ call.attempts = 2
    /\ Len(tasks) >= 2
    /\ \A t \in {1, 2} :
          \E i \in 1..Len(tasks[t].results) : ~tasks[t].results[i].raises

(***************************************************************************)
(* Properties of the progress counters.                                    *)
(***************************************************************************)

\* C35: the progress counters of the session in the slot stay consistent
\* in every reachable state: 0 <= questions_completed <= questions_total
\* and evaluations_completed <= questions_total; and while a session stays
\* in the slot its questions_completed never decreases.
C35_ProgressConsistent ==
    /\ [](current_session # 0
            => /\ 0 <= sessions[current_session].progress.questions_completed
               /\ sessions[current_session].progress.questions_completed
                    <= sessions[current_session].progress.questions_total
               /\ sessions[current_session].progress.evaluations_completed
                    <= sessions[current_session].progress.questions_total)
    /\ [][(current_session # 0 /\ current_session' = current_session)
            => sessions'[current_session].progress.questions_completed
                 >= sessions[current_session].progress.questions_completed]_vars

(***************************************************************************)
(* Properties of the multi-turn pipeline.                                  *)
(***************************************************************************)

\* C36: a multi-turn session evaluates each turn individually: its stored
\* responses are in message order and the evaluation of the user message
\* at index i was given exactly messages[0..i-1] as conversation history;
\* when the session is completed it holds exactly one response per user
\* message and progress.processed_messages equals progress.total_messages.
C36_OneResponsePerTurn ==
    \A id \in Sessions :
        LET session == sessions[id]
            responses == session.responses
            user_messages == UserMessagesFrom(session.messages, 0)
        IN  session.kind = "multi"
                => /\ \A k \in 1..Len(responses) :
                        /\ responses[k].message_index \in user_messages
                        /\ responses[k].history
                             = SubSeq(session.messages, 1, responses[k].message_index)
                        /\ \A j \in 1..(k - 1) :
                              responses[j].message_index < responses[k].message_index
                   /\ session.status = "completed"
                        => /\ {responses[k].message_index : k \in 1..Len(responses)}
                                = user_messages
                           /\ Len(responses) = Cardinality(user_messages)
                           /\ session.progress.processed_messages
                                = session.progress.total_messages

(***************************************************************************)
(* Properties of the fusion of the rubric score with the semantic score.   *)
(***************************************************************************)

\* C37: the evaluation_method label tells whether a score was fused: an
\* evaluation is labelled mt_bench_with_bleurt if and only if its
\* overall_score was computed by fusing the rubric score with a semantic
\* score (it then stores the rubric score as original_mt_bench_score), in
\* evaluate_response as well as in batch_evaluate; and the two paths give
\* the same label and the same overall_score for the same item.
C37_LabelTellsFusion ==
    LET Fused(evaluation) == "original_mt_bench_score" \in evaluation.keys
        Labelled(evaluation) == evaluation.evaluation_method = "mt_bench_with_bleurt"
        evaluation_data == call.result.evaluation
        Returned == call.phase = "returned" /\ call.op = "evaluate_response"
        SameItem(i) == /\ judge.test_results[i].bot_response = "text"
                       /\ i <= Len(judge.qa_pairs)
                       /\ judge.qa_pairs[i] = call.answer
                       /\ judge.replies[i] = call.reply
    IN  /\ Returned => (Labelled(evaluation_data) <=> Fused(evaluation_data))
        /\ Evaluated =>
              \A i \in Results : Labelled(EvaluationOf(i)) <=> Fused(EvaluationOf(i))
        /\ (Returned /\ Evaluated) =>
              \A i \in Results :
                  SameItem(i)
                      => /\ EvaluationOf(i).evaluation_method = evaluation_data.evaluation_method
                         /\ EvaluationOf(i).overall_score = evaluation_data.overall_score

\* C38: whenever an evaluation stores a pre-fusion score next to a fused
\* overall_score (original_mt_bench_score or original_legacy_score), the
\* stored original is the evaluator's score before fusion, and
\* overall_score = 0.7 * original + 0.3 * clamp((s + 2) / 4, 0, 1) holds
\* for the stored original and the stored semantic score s.
C38_StoredOriginalIsPreFusion ==
    Evaluated =>
        \A i \in Results :
            LET evaluation == EvaluationOf(i)
                Weighted(original) ==
                    10 * evaluation.overall_score
                        = 7 * original + 3 * Normalized(evaluation.bleurt_score)
            IN  /\ "original_mt_bench_score" \in evaluation.keys
                      => /\ evaluation.original_mt_bench_score = RubricOverall(i)
                         /\ Weighted(evaluation.original_mt_bench_score)
                /\ "original_legacy_score" \in evaluation.keys
                      => /\ evaluation.original_legacy_score
                              = judge.replies[i].overall_score
                         /\ Weighted(evaluation.original_legacy_score)

\* Properties of the single-turn pipelines.

\* C39: a single-turn session reaches completed only if at least one
\* question was fired; when extraction returns QA pairs none of which has a
\* non-empty question, the session is never completed with zero questions
\* and all-zero metrics.
C39_CompletedFiredAQuestion ==
    \A id \in Sessions :
        LET session == sessions[id]
        IN  /\ session.kind \notin {"none", "multi"}
            /\ session.status = "completed"
            => /\ session.questions # <<>>
               /\ session.test_results # <<>>

====
